---- MODULE Spec2Model ----
(***************************************************************************)
(* Model of the playbook generation service: the provider clients and      *)
(* their factory (ai_providers.py), the generation orchestrator and the    *)
(* /generate endpoint (api.py), and the prompt analyzer and the template   *)
(* engine behind the fallback path (playbook_generator.py).                *)
(*                                                                         *)
(* Python str values are TLA+ strings; TLC evaluates Len, \o and SubSeq    *)
(* on them, so the text functions are computed character by character as   *)
(* the code computes them.  The character "~" stands for the backquote     *)
(* of a Markdown fence, which a TLA+ string literal cannot hold.           *)
(***************************************************************************)
EXTENDS Integers, Sequences, FiniteSets, TLC

-----------------------------------------------------------------------------
(* Python values                                                           *)

\* Python None in an Optional[str] position.
None == "<None>"

\* Truth value of an Optional[str]: None and "" are falsy.
Truthy(s) == s /= None /\ s /= ""

\* a or b, on Optional[str].
OrElse(a, b) == IF Truthy(a) THEN a ELSE b

Char(t, i) == SubSeq(t, i, i)

\* The characters str.strip() removes, among those the texts here use.
Whitespace == {" ", "\n", "\t"}

RECURSIVE LStrip(_)
LStrip(t) ==
    IF Len(t) > 0 /\ Char(t, 1) \in Whitespace
    THEN LStrip(SubSeq(t, 2, Len(t)))
    ELSE t

RECURSIVE RStrip(_)
RStrip(t) ==
    IF Len(t) > 0 /\ Char(t, Len(t)) \in Whitespace
    THEN RStrip(SubSeq(t, 1, Len(t) - 1))
    ELSE t

\* str.strip()
Strip(t) == RStrip(LStrip(t))

\* str.startswith(p), str.endswith(p)
StartsWith(t, p) == Len(t) >= Len(p) /\ SubSeq(t, 1, Len(p)) = p
EndsWith(t, p) == Len(t) >= Len(p) /\ SubSeq(t, Len(t) - Len(p) + 1, Len(t)) = p

\* k in t, for strings
In(k, t) == \E i \in 1..(Len(t) - Len(k) + 1) : SubSeq(t, i, i + Len(k) - 1) = k

UpperAlphabet == "ABCDEFGHIJKLMNOPQRSTUVWXYZ"
LowerAlphabet == "abcdefghijklmnopqrstuvwxyz"

\* The lower-case letter of each upper-case letter.
ToLower ==
    [c \in {Char(UpperAlphabet, i) : i \in 1..Len(UpperAlphabet)} |->
        Char(LowerAlphabet, CHOOSE i \in 1..Len(UpperAlphabet) :
                                Char(UpperAlphabet, i) = c)]

LowerChar(c) == IF c \in DOMAIN ToLower THEN ToLower[c] ELSE c

\* str.lower(): every character lowered (the text is split in halves to
\* keep the recursion shallow)
RECURSIVE Lower(_)
Lower(t) ==
    IF Len(t) = 0 THEN t
    ELSE IF Len(t) = 1 THEN LowerChar(t)
    ELSE Lower(SubSeq(t, 1, Len(t) \div 2))
         \o Lower(SubSeq(t, (Len(t) \div 2) + 1, Len(t)))

\* sep.join(seq)
RECURSIVE Join(_, _)
Join(sep, seq) ==
    IF Len(seq) = 0 THEN ""
    ELSE IF Len(seq) = 1 THEN seq[1]
    ELSE seq[1] \o sep \o Join(sep, Tail(seq))

-----------------------------------------------------------------------------
(* api.py: the text functions of AIPlaybookService                         *)

\* _build_full_prompt: the prompt followed by the "Additional context" block.
build_full_prompt(prompt, target_hosts, environment, tags) ==
    LET hostPart == IF Truthy(target_hosts) /\ target_hosts /= "all"
                    THEN <<"Target hosts: " \o target_hosts>> ELSE <<>>
        envPart  == IF Truthy(environment)
                    THEN <<"Environment: " \o environment>> ELSE <<>>
        tagPart  == IF Len(tags) > 0
                    THEN <<"Tags: " \o Join(", ", tags)>> ELSE <<>>
        context_parts == hostPart \o envPart \o tagPart
    IN  IF Len(context_parts) > 0
        THEN prompt \o "\n\nAdditional context:\n" \o Join("\n", context_parts)
        ELSE prompt

\* _clean_codeblock: strip, drop an opening fence, drop a closing fence, strip.
clean_codeblock(text) ==
    LET t0 == Strip(text)
        t1 == IF StartsWith(t0, "~~~yaml") THEN SubSeq(t0, 8, Len(t0))
              ELSE IF StartsWith(t0, "~~~") THEN SubSeq(t0, 4, Len(t0))
              ELSE t0
        t2 == IF EndsWith(t1, "~~~") THEN SubSeq(t1, 1, Len(t1) - 3) ELSE t1
    IN  Strip(t2)

\* _detect_playbook_type: the label of an AI-generated playbook.
detect_playbook_type(playbook) ==
    LET lower == Lower(playbook)
    IN  IF In("kubernetes", lower) \/ In("k8s", lower) THEN "kubernetes"
        ELSE IF In("docker", lower) THEN "docker"
        ELSE IF In("nginx", lower) \/ In("apache", lower) THEN "web"
        ELSE IF In("postgres", lower) \/ In("mysql", lower) THEN "database"
        ELSE IF In("prometheus", lower) \/ In("grafana", lower) THEN "monitoring"
        ELSE IF In("firewall", lower) \/ In("ssh", lower) THEN "security"
        ELSE "general"

-----------------------------------------------------------------------------
(* ai_providers.py: parsed JSON values, exceptions, provider clients       *)

\* A parsed JSON value is a record tagged by k: "null", "num", "str" (s),
\* "list" (items, a sequence of values) or "dict" (m, a function from keys
\* to values).  A raised exception is the record Raise(type, msg).
JNull == [k |-> "null"]
JNum == [k |-> "num"]
JStr(s) == [k |-> "str", s |-> s]
JList(items) == [k |-> "list", items |-> items]
JDict(m) == [k |-> "dict", m |-> m]
Raise(type, msg) == [k |-> "raise", type |-> type, msg |-> msg]
IsRaise(v) == v.k = "raise"

\* key in x: membership for a dict or a list, substring for a str, and a
\* TypeError for a value that is no container.
PyIn(key, x) ==
    CASE x.k = "dict" -> IF key \in DOMAIN x.m THEN "true" ELSE "false"
      [] x.k = "list" -> IF \E i \in 1..Len(x.items) : x.items[i] = JStr(key)
                         THEN "true" ELSE "false"
      [] x.k = "str"  -> IF In(key, x.s) THEN "true" ELSE "false"
      [] OTHER        -> "TypeError"

\* x[key] for a str key, asked only after key in x held: the value of a
\* dict, a TypeError for a list or a str (their indices must be integers).
PyGet(x, key) ==
    IF x.k = "dict" THEN x.m[key]
    ELSE Raise("TypeError", "indices must be integers")

NotIterable == Raise("TypeError", "argument is not iterable")

\* GeminiProvider._extract_text
gemini_extract_text(data) ==
    LET invalid == Raise("ValueError", "Invalid response structure from Gemini API")
    IN  IF data.k /= "dict" THEN invalid
        ELSE IF "candidates" \notin DOMAIN data.m THEN invalid
        ELSE LET candidates == data.m["candidates"]
        IN  IF candidates.k /= "list" THEN invalid
            ELSE IF Len(candidates.items) = 0 THEN invalid
            ELSE LET first == candidates.items[1]
            IN  IF PyIn("content", first) = "TypeError" THEN NotIterable
                ELSE IF PyIn("content", first) = "false" THEN invalid
                ELSE LET content == PyGet(first, "content")
                IN  IF IsRaise(content) THEN content
                    ELSE IF PyIn("parts", content) = "TypeError" THEN NotIterable
                    ELSE IF PyIn("parts", content) = "false" THEN invalid
                    ELSE LET parts == PyGet(content, "parts")
                    IN  IF IsRaise(parts) THEN parts
                        ELSE IF parts.k /= "list" THEN invalid
                        ELSE IF Len(parts.items) = 0 THEN invalid
                        ELSE LET part == parts.items[1]
                        IN  IF PyIn("text", part) = "TypeError" THEN NotIterable
                            ELSE IF PyIn("text", part) = "false" THEN invalid
                            ELSE PyGet(part, "text")

\* OpenAIProvider._extract_text
openai_extract_text(data) ==
    LET invalid == Raise("ValueError", "Invalid response structure from OpenAI API")
    IN  IF data.k /= "dict" THEN invalid
        ELSE IF "choices" \notin DOMAIN data.m THEN invalid
        ELSE LET choices == data.m["choices"]
        IN  IF choices.k /= "list" THEN invalid
            ELSE IF Len(choices.items) = 0 THEN invalid
            ELSE LET first == choices.items[1]
            IN  IF PyIn("message", first) = "TypeError" THEN NotIterable
                ELSE IF PyIn("message", first) = "false" THEN invalid
                ELSE LET message == PyGet(first, "message")
                IN  IF IsRaise(message) THEN message
                    ELSE IF PyIn("content", message) = "TypeError" THEN NotIterable
                    ELSE IF PyIn("content", message) = "false" THEN invalid
                    ELSE PyGet(message, "content")

\* AnthropicProvider._extract_text (no isinstance(data, dict) test here)
anthropic_extract_text(data) ==
    LET invalid == Raise("ValueError", "Invalid response structure from Anthropic API")
    IN  IF PyIn("content", data) = "TypeError" THEN NotIterable
        ELSE IF PyIn("content", data) = "false" THEN invalid
        ELSE LET content == PyGet(data, "content")
        IN  IF IsRaise(content) THEN content
            ELSE IF content.k /= "list" THEN invalid
            ELSE IF Len(content.items) = 0 THEN invalid
            ELSE LET first == content.items[1]
            IN  IF PyIn("text", first) = "TypeError" THEN NotIterable
                ELSE IF PyIn("text", first) = "false" THEN invalid
                ELSE PyGet(first, "text")

\* The _extract_text of the client's class.
extract_text(name, data) ==
    CASE name = "gemini"    -> gemini_extract_text(data)
      [] name = "openai"    -> openai_extract_text(data)
      [] name = "anthropic" -> anthropic_extract_text(data)

\* default_model of the three provider classes
default_model_of(name) ==
    CASE name = "gemini"    -> "gemini-2.5-flash"
      [] name = "openai"    -> "gpt-4"
      [] name = "anthropic" -> "claude-3-sonnet-20240229"

\* AIProvider.__init__ through a concrete class; get_name() is the name field.
AIProvider(name, api_key, model) ==
    [k |-> "client", name |-> name, api_key |-> api_key,
     model |-> OrElse(model, default_model_of(name))]

-----------------------------------------------------------------------------
(* playbook_generator.py: the regular expressions of the prompt analyzer   *)

\* The characters \w matches.
WordChars ==
    LET all == "abcdefghijklmnopqrstuvwxyzABCDEFGHIJKLMNOPQRSTUVWXYZ0123456789_"
    IN  {Char(all, i) : i \in 1..Len(all)}

\* \w at position i of t (FALSE outside the text)
IsWordAt(t, i) == i >= 1 /\ i <= Len(t) /\ Char(t, i) \in WordChars

\* \b between positions i-1 and i of t
Boundary(t, i) == IsWordAt(t, i - 1) /= IsWordAt(t, i)

\* The positions where a match of the alternative p that starts at position
\* i of t can end (exclusive), under re.I.  An alternative is written as in
\* the source: literal characters, ".?" (an optional character other than
\* newline) and "[..]" (one character of a class).
RECURSIVE MatchEnds(_, _, _)
MatchEnds(t, i, p) ==
    IF Len(p) = 0 THEN {i}
    ELSE IF Len(p) >= 2 /\ SubSeq(p, 1, 2) = ".?"
    THEN MatchEnds(t, i, SubSeq(p, 3, Len(p)))
         \cup (IF i <= Len(t) /\ Char(t, i) /= "\n"
               THEN MatchEnds(t, i + 1, SubSeq(p, 3, Len(p)))
               ELSE {})
    ELSE IF Char(p, 1) = "["
    THEN LET close == CHOOSE j \in 2..Len(p) :
                          /\ Char(p, j) = "]"
                          /\ \A n \in 2..(j - 1) : Char(p, n) /= "]"
         IN  IF i <= Len(t) /\ In(LowerChar(Char(t, i)), SubSeq(p, 2, close - 1))
             THEN MatchEnds(t, i + 1, SubSeq(p, close + 1, Len(p)))
             ELSE {}
    ELSE IF i <= Len(t) /\ LowerChar(Char(t, i)) = Char(p, 1)
         THEN MatchEnds(t, i + 1, SubSeq(p, 2, Len(p)))
         ELSE {}

\* re.search(r"\b(a1|a2|...)\b", t, re.I) finds a match
Search(alternatives, t) ==
    LET boundaries == {i \in 1..(Len(t) + 1) : Boundary(t, i)}
    IN  \E n \in 1..Len(alternatives) : \E i \in boundaries :
            \E j \in MatchEnds(t, i, alternatives[n]) : j \in boundaries

\* Category patterns with entries for the generic-system and ci-cd
\* categories after the six of the code.
patterns_with_system ==
    << [name |-> "kubernetes",
        alts |-> <<"k8s", "kubernetes", "kubectl", "pod", "deployment",
                   "service", "ingress">>],
       [name |-> "docker",
        alts |-> <<"docker", "container", "compose", "dockerfile", "registry">>],
       [name |-> "database",
        alts |-> <<"mysql", "postgres", "mongodb", "redis", "database", "db">>],
       [name |-> "monitoring",
        alts |-> <<"prometheus", "grafana", "monitoring", "metrics", "alerts">>],
       [name |-> "security",
        alts |-> <<"security", "firewall", "ssh", "tls", "certificate", "vault">>],
       [name |-> "network",
        alts |-> <<"network", "routing", "dns", "load.?balanc", "nginx",
                   "haproxy">>],
       [name |-> "system", alts |-> <<"system", "package", "timezone">>],
       [name |-> "cicd", alts |-> <<"cicd", "pipeline", "jenkins">>] >>

\* _compile_patterns: the category patterns, in dict order
patterns ==
    << [name |-> "kubernetes",
        alts |-> <<"k8s", "kubernetes", "kubectl", "pod", "deployment",
                   "service", "ingress">>],
       [name |-> "docker",
        alts |-> <<"docker", "container", "compose", "dockerfile", "registry">>],
       [name |-> "database",
        alts |-> <<"mysql", "postgres", "mongodb", "redis", "database", "db">>],
       [name |-> "monitoring",
        alts |-> <<"prometheus", "grafana", "monitoring", "metrics", "alerts">>],
       [name |-> "security",
        alts |-> <<"security", "firewall", "ssh", "tls", "certificate", "vault">>],
       [name |-> "network",
        alts |-> <<"network", "routing", "dns", "load.?balanc", "nginx",
                   "haproxy">>] >>

\* class PlaybookType: the values of the enumeration
PlaybookType ==
    {"kubernetes", "docker", "system", "network", "database", "monitoring",
     "security", "cicd"}

\* The type loop without its break: the last pattern that matches wins.
RECURSIVE detect_type_last_match(_, _)
detect_type_last_match(prompt, n) ==
    IF n > Len(patterns) THEN None
    ELSE LET later == detect_type_last_match(prompt, n + 1)
         IN  IF later /= None THEN later
             ELSE IF Search(patterns[n].alts, prompt)
                     /\ patterns[n].name \in PlaybookType
             THEN patterns[n].name
             ELSE None

\* analyze_prompt, the type loop: the first pattern that matches and names a
\* PlaybookType value; None when no pattern does.
RECURSIVE detect_type_from(_, _)
detect_type_from(prompt, n) ==
    IF n > Len(patterns) THEN None
    ELSE IF Search(patterns[n].alts, prompt) /\ patterns[n].name \in PlaybookType
         THEN patterns[n].name
         ELSE detect_type_from(prompt, n + 1)

\* analyze_prompt, the environment chain; the dataclass default otherwise
detect_environment(prompt) ==
    LET lower == Lower(prompt)
    IN  IF In("production", lower) THEN "production"
        ELSE IF In("staging", lower) THEN "staging"
        ELSE IF In("development", lower) \/ In("dev", lower) THEN "development"
        ELSE "production"

\* _extract_requirements: the requirement patterns, in dict order
requirement_patterns ==
    << [name |-> "high_availability",
        alts |-> <<"high.?availability", "ha", "redundant", "failover">>],
       [name |-> "scalability",
        alts |-> <<"scal[ae]bl", "auto.?scal", "elastic">>],
       [name |-> "security",
        alts |-> <<"secur", "encrypt", "tls", "ssl", "firewall">>],
       [name |-> "monitoring",
        alts |-> <<"monitor", "metric", "log", "observ">>],
       [name |-> "backup",
        alts |-> <<"backup", "restore", "disaster.?recovery">>],
       [name |-> "performance",
        alts |-> <<"perform", "optimiz", "cache", "fast">>] >>

RECURSIVE extract_requirements_from(_, _)
extract_requirements_from(prompt, n) ==
    IF n > Len(requirement_patterns) THEN <<>>
    ELSE (IF Search(requirement_patterns[n].alts, prompt)
          THEN <<requirement_patterns[n].name>> ELSE <<>>)
         \o extract_requirements_from(prompt, n + 1)

\* _extract_requirements
extract_requirements(prompt) == extract_requirements_from(prompt, 1)

\* _generate_tags, the keyword table, in dict order
keyword_to_tags ==
    << [keyword |-> "install",   tags |-> <<"install", "setup">>],
       [keyword |-> "configure", tags |-> <<"configure", "config">>],
       [keyword |-> "deploy",    tags |-> <<"deploy", "rollout">>],
       [keyword |-> "update",    tags |-> <<"update", "upgrade">>],
       [keyword |-> "backup",    tags |-> <<"backup">>],
       [keyword |-> "restore",   tags |-> <<"restore">>],
       [keyword |-> "monitor",   tags |-> <<"monitoring">>],
       [keyword |-> "secure",    tags |-> <<"security">>] >>

\* _generate_tags, the loop from keyword n on: the tags that extend the list
RECURSIVE collect_tags_from(_, _)
collect_tags_from(prompt, n) ==
    IF n > Len(keyword_to_tags) THEN <<>>
    ELSE (IF In(keyword_to_tags[n].keyword, Lower(prompt))
          THEN keyword_to_tags[n].tags ELSE <<>>)
         \o collect_tags_from(prompt, n + 1)

\* _generate_tags, the list tags before its last statement
collect_tags(prompt) == <<"setup">> \o collect_tags_from(prompt, 1)

\* A list in an order the language does not fix is kept as the bag of its
\* elements: how often each occurs.
BagOfList(seq) ==
    [t \in {seq[i] : i \in 1..Len(seq)} |->
        Cardinality({i \in 1..Len(seq) : seq[i] = t})]

\* list(set(tags)): every element of tags once, in no fixed order
list_of_set(tags) == [t \in {tags[i] : i \in 1..Len(tags)} |-> 1]

\* _generate_tags without the removal of duplicates: list(tags).
generate_tags_with_duplicates(prompt) == BagOfList(collect_tags(prompt))

\* _generate_tags
generate_tags(prompt) == list_of_set(collect_tags(prompt))

\* A tag list: an explicit list keeps its order (ordered), the analyzer's
\* list is the bag of its elements.
TagList(seq) == [ordered |-> TRUE, elems |-> seq]
TagSet(bag) == [ordered |-> FALSE, elems |-> bag]

\* analyze_prompt: the PlaybookContext of a prompt
analyze_prompt(prompt) ==
    [prompt |-> prompt,
     playbook_type |-> detect_type_from(prompt, 1),
     target_hosts |-> "all",
     environment |-> detect_environment(prompt),
     requirements |-> extract_requirements(prompt),
     tags |-> TagSet(generate_tags(prompt))]

-----------------------------------------------------------------------------
(* playbook_generator.py: documents, templates and the augmenter           *)

\* A document is a sequence of plays.  A play has a name, a host selector,
\* its other play keywords (options), its vars, its tasks and its handlers;
\* a play without a handlers key has the empty sequence (the code never
\* leaves a play with an empty handlers list).  A task keeps its name, its
\* action module, its notify target (None without one) and its tags.
\*
\* A YAML text is [k |-> "yaml", form, doc]: doc is what yaml.safe_load
\* returns for it, form tells a template's literal text ("source") from the
\* output of yaml.dump ("dump"), which differ as texts for the same doc.
\* Any other text is [k |-> "text", s]: a plain string.
NoVars == <<>>
SourceText(doc) == [k |-> "yaml", form |-> "source", doc |-> doc]
PlainText(s) == [k |-> "text", s |-> s]

\* yaml.dump(data, default_flow_style=False, sort_keys=False)
yaml_dump(doc) == [k |-> "yaml", form |-> "dump", doc |-> doc]

\* The number of positions of the string s that hold the character ch.
Occurrences(ch, s) == Cardinality({i \in 1..Len(s) : Char(s, i) = ch})

\* A plain string that opens a flow sequence or a flow mapping it does not
\* close: the parser of yaml.safe_load raises on it.
UnclosedFlow(s) ==
    \/ Occurrences("[", s) > Occurrences("]", s)
    \/ Occurrences("{", s) > Occurrences("}", s)

\* yaml.safe_load(text), as a "loaded" record of the kind of the data and
\* the data, or a YAMLError.  A YAML text loads as its list of plays; of
\* the plain strings the empty one loads as None, one with an unclosed flow
\* collection raises, and the others are taken as the scalar they spell.
yaml_safe_load(text) ==
    IF text.k = "yaml" THEN [k |-> "loaded", kind |-> "list", data |-> text.doc]
    ELSE IF UnclosedFlow(text.s) THEN Raise("YAMLError", "could not parse")
    ELSE IF Strip(text.s) = "" THEN [k |-> "loaded", kind |-> "none", data |-> None]
    ELSE [k |-> "loaded", kind |-> "str", data |-> text.s]

\* yaml.dump of a scalar: the scalar and the end-of-document marker
yaml_dump_scalar(loaded) ==
    PlainText((IF loaded.kind = "none" THEN "null" ELSE loaded.data) \o "\n...\n")

\* _kubernetes_template
kubernetes_template ==
    SourceText(<<
      [name |-> "Kubernetes Deployment Playbook",
       hosts |-> "{{ target_hosts | default('localhost') }}",
       options |-> ("gather_facts" :> TRUE),
       vars |->
         ("kube_namespace" :> "{{ namespace | default('default') }}") @@
         ("app_name" :> "{{ application_name }}") @@
         ("replicas" :> "{{ replica_count | default(3) }}") @@
         ("image" :> "{{ container_image }}"),
       tasks |-> <<
         [name |-> "Ensure kubectl is installed", module |-> "package",
          notify |-> None, tags |-> <<"setup", "kubectl">>],
         [name |-> "Create namespace", module |-> "kubernetes.core.k8s",
          notify |-> None, tags |-> <<"namespace">>],
         [name |-> "Deploy application", module |-> "kubernetes.core.k8s",
          notify |-> None, tags |-> <<"deploy", "kubernetes">>],
         [name |-> "Create service", module |-> "kubernetes.core.k8s",
          notify |-> None, tags |-> <<"service", "kubernetes">>]
       >>,
       handlers |-> <<>>]
    >>)

\* _docker_template
docker_template ==
    SourceText(<<
      [name |-> "Docker Environment Setup",
       hosts |-> "{{ target_hosts | default('all') }}",
       options |-> ("become" :> TRUE),
       vars |->
         ("docker_users" :> "[]") @@
         ("docker_compose_version" :> "2.20.0") @@
         ("docker_repo_url" :> "deb [arch=amd64] https://download.docker.com/linux/{{ ansible_distribution | lower }} {{ ansible_distribution_release }} stable"),
       tasks |-> <<
         [name |-> "Install required packages", module |-> "package",
          notify |-> None, tags |-> <<"setup", "docker">>],
         [name |-> "Add Docker GPG key", module |-> "apt_key",
          notify |-> None, tags |-> <<"setup", "docker">>],
         [name |-> "Add Docker repository", module |-> "apt_repository",
          notify |-> None, tags |-> <<"setup", "docker">>],
         [name |-> "Install Docker", module |-> "package",
          notify |-> None, tags |-> <<"setup", "docker">>],
         [name |-> "Start and enable Docker", module |-> "systemd",
          notify |-> None, tags |-> <<"setup", "docker">>],
         [name |-> "Install Docker Compose Plugin", module |-> "package",
          notify |-> None, tags |-> <<"setup", "docker-compose">>],
         [name |-> "Add users to docker group", module |-> "user",
          notify |-> None, tags |-> <<"setup", "docker">>]
       >>,
       handlers |-> <<>>]
    >>)

\* _system_template
system_template ==
    SourceText(<<
      [name |-> "System Configuration Playbook",
       hosts |-> "{{ target_hosts | default('all') }}",
       options |-> ("become" :> TRUE),
       vars |->
         ("system_timezone" :> "UTC") @@
         ("system_packages" :> "[]"),
       tasks |-> <<
         [name |-> "Update package cache", module |-> "package",
          notify |-> None, tags |-> <<"update", "system">>],
         [name |-> "Upgrade all packages", module |-> "package",
          notify |-> None, tags |-> <<"update", "system">>],
         [name |-> "Set timezone", module |-> "timezone",
          notify |-> None, tags |-> <<"config", "system">>],
         [name |-> "Install essential packages", module |-> "package",
          notify |-> None, tags |-> <<"setup", "system">>],
         [name |-> "Configure sysctl parameters", module |-> "sysctl",
          notify |-> None, tags |-> <<"config", "system">>]
       >>,
       handlers |-> <<>>]
    >>)

\* _database_template
database_template ==
    SourceText(<<
      [name |-> "Database Setup Playbook",
       hosts |-> "{{ target_hosts | default('all') }}",
       options |-> ("become" :> TRUE),
       vars |->
         ("db_type" :> "{{ database_type | default('postgresql') }}") @@
         ("db_name" :> "{{ database_name | default('myapp') }}") @@
         ("db_user" :> "{{ database_user | default('appuser') }}") @@
         ("db_password" :> "{{ database_password }}"),
       tasks |-> <<
         [name |-> "Install PostgreSQL", module |-> "package",
          notify |-> None, tags |-> <<"setup", "database">>],
         [name |-> "Start PostgreSQL service", module |-> "systemd",
          notify |-> None, tags |-> <<"setup", "database">>],
         [name |-> "Create database", module |-> "postgresql_db",
          notify |-> None, tags |-> <<"setup", "database">>],
         [name |-> "Create database user", module |-> "postgresql_user",
          notify |-> None, tags |-> <<"setup", "database">>]
       >>,
       handlers |-> <<>>]
    >>)

\* _monitoring_template
monitoring_template ==
    SourceText(<<
      [name |-> "Monitoring Stack Setup",
       hosts |-> "{{ target_hosts | default('all') }}",
       options |-> ("become" :> TRUE),
       vars |->
         ("prometheus_version" :> "2.45.0") @@
         ("grafana_version" :> "10.0.0") @@
         ("prometheus_base" :> "https://github.com/prometheus/prometheus/releases/download") @@
         ("prometheus_file" :> "prometheus-{{ prometheus_version }}.linux-amd64.tar.gz") @@
         ("prometheus_url" :> "{{ prometheus_base }}/v{{ prometheus_version }}/{{ prometheus_file }}"),
       tasks |-> <<
         [name |-> "Create monitoring user", module |-> "user",
          notify |-> None, tags |-> <<"setup", "monitoring">>],
         [name |-> "Download and install Prometheus", module |-> "unarchive",
          notify |-> None, tags |-> <<"setup", "prometheus">>],
         [name |-> "Create Prometheus configuration", module |-> "template",
          notify |-> None, tags |-> <<"config", "prometheus">>],
         [name |-> "Create systemd service for Prometheus", module |-> "systemd",
          notify |-> None, tags |-> <<"setup", "prometheus">>],
         [name |-> "Install Grafana", module |-> "package",
          notify |-> None, tags |-> <<"setup", "grafana">>],
         [name |-> "Start Grafana service", module |-> "systemd",
          notify |-> None, tags |-> <<"setup", "grafana">>]
       >>,
       handlers |-> <<>>]
    >>)

\* _security_template
security_template ==
    SourceText(<<
      [name |-> "Security Hardening Playbook",
       hosts |-> "{{ target_hosts | default('all') }}",
       options |-> ("become" :> TRUE),
       vars |-> NoVars,
       tasks |-> <<
         [name |-> "Update all packages", module |-> "package",
          notify |-> None, tags |-> <<"update", "security">>],
         [name |-> "Configure SSH hardening", module |-> "lineinfile",
          notify |-> "restart sshd", tags |-> <<"config", "ssh", "security">>],
         [name |-> "Install and configure fail2ban", module |-> "package",
          notify |-> None, tags |-> <<"setup", "security">>],
         [name |-> "Configure firewall with UFW", module |-> "ufw",
          notify |-> None, tags |-> <<"firewall", "security">>],
         [name |-> "Enable UFW", module |-> "ufw",
          notify |-> None, tags |-> <<"firewall", "security">>],
         [name |-> "Install and configure auditd", module |-> "package",
          notify |-> None, tags |-> <<"setup", "audit", "security">>],
         [name |-> "Start auditd service", module |-> "systemd",
          notify |-> None, tags |-> <<"setup", "audit", "security">>]
       >>,
       handlers |-> <<[name |-> "restart sshd", module |-> "systemd"]>>]
    >>)

\* _load_templates: SYSTEM has a template, NETWORK and CICD have none
load_templates ==
    ("kubernetes" :> kubernetes_template) @@
    ("docker" :> docker_template) @@
    ("system" :> system_template) @@
    ("database" :> database_template) @@
    ("monitoring" :> monitoring_template) @@
    ("security" :> security_template)

\* _add_ha_tasks
add_ha_tasks(play) ==
    [play EXCEPT !.tasks = @ \o
        << [name |-> "Configure keepalived for HA", module |-> "package",
            notify |-> None, tags |-> <<"ha", "keepalived">>],
           [name |-> "Setup load balancer health checks", module |-> "uri",
            notify |-> None, tags |-> <<"ha", "healthcheck">>] >>]

\* _add_security_tasks that appends its tasks and no handler.
add_security_tasks_without_handler(play) ==
    [play EXCEPT !.tasks = @ \o
        << [name |-> "Configure firewall rules", module |-> "firewalld",
            notify |-> None, tags |-> <<"security", "firewall">>],
           [name |-> "Setup fail2ban", module |-> "package",
            notify |-> None, tags |-> <<"security", "fail2ban">>],
           [name |-> "Configure SSH hardening", module |-> "lineinfile",
            notify |-> "restart sshd", tags |-> <<"security", "ssh">>] >>]

\* _add_security_tasks without the test for a handler of that name.
add_security_tasks_always_appends(play) ==
    LET security_tasks ==
            << [name |-> "Configure firewall rules", module |-> "firewalld",
                notify |-> None, tags |-> <<"security", "firewall">>],
               [name |-> "Setup fail2ban", module |-> "package",
                notify |-> None, tags |-> <<"security", "fail2ban">>],
               [name |-> "Configure SSH hardening", module |-> "lineinfile",
                notify |-> "restart sshd", tags |-> <<"security", "ssh">>] >>
        handler == [name |-> "restart sshd", module |-> "service"]
    IN  [play EXCEPT !.tasks = @ \o security_tasks,
                     !.handlers = Append(@, handler)]

\* _add_security_tasks: three tasks, and the handler unless one of that
\* name is present
add_security_tasks(play) ==
    LET security_tasks ==
            << [name |-> "Configure firewall rules", module |-> "firewalld",
                notify |-> None, tags |-> <<"security", "firewall">>],
               [name |-> "Setup fail2ban", module |-> "package",
                notify |-> None, tags |-> <<"security", "fail2ban">>],
               [name |-> "Configure SSH hardening", module |-> "lineinfile",
                notify |-> "restart sshd", tags |-> <<"security", "ssh">>] >>
        handler == [name |-> "restart sshd", module |-> "service"]
        present == \E i \in 1..Len(play.handlers) :
                       play.handlers[i].name = "restart sshd"
    IN  [play EXCEPT !.tasks = @ \o security_tasks,
                     !.handlers = IF present THEN @ ELSE Append(@, handler)]

\* _add_monitoring_tasks
add_monitoring_tasks(play) ==
    [play EXCEPT !.tasks = @ \o
        << [name |-> "Install node exporter", module |-> "unarchive",
            notify |-> None, tags |-> <<"monitoring", "prometheus">>],
           [name |-> "Create systemd service for node exporter",
            module |-> "systemd",
            notify |-> None, tags |-> <<"monitoring", "prometheus">>] >>]

\* _add_backup_tasks
add_backup_tasks(play) ==
    [play EXCEPT !.tasks = @ \o
        << [name |-> "Create backup directory", module |-> "file",
            notify |-> None, tags |-> <<"backup">>],
           [name |-> "Setup automated backup cron job", module |-> "cron",
            notify |-> None, tags |-> <<"backup", "cron">>] >>]

\* _enhance_with_requirements, the branch of one requirement
enhance_one(play, req) ==
    CASE req = "high_availability" -> add_ha_tasks(play)
      [] req = "security"          -> add_security_tasks(play)
      [] req = "monitoring"        -> add_monitoring_tasks(play)
      [] req = "backup"            -> add_backup_tasks(play)
      [] OTHER                     -> play

\* The loop over context.requirements taken from its last element.
RECURSIVE enhance_all_reversed(_, _)
enhance_all_reversed(play, requirements) ==
    IF Len(requirements) = 0 THEN play
    ELSE enhance_all_reversed(enhance_one(play, requirements[Len(requirements)]),
                              SubSeq(requirements, 1, Len(requirements) - 1))

\* _enhance_with_requirements, the loop over context.requirements
RECURSIVE enhance_all(_, _)
enhance_all(play, requirements) ==
    IF Len(requirements) = 0 THEN play
    ELSE enhance_all(enhance_one(play, Head(requirements)), Tail(requirements))

\* The requirements _enhance_with_requirements has a branch for.
EnhancingRequirements == {"high_availability", "security", "monitoring", "backup"}

\* _enhance_with_requirements that lets the error of yaml.safe_load escape.
enhance_with_requirements_uncaught(playbook, context) ==
    LET loaded == yaml_safe_load(playbook)
        playbook_data == loaded.data
    IN  IF IsRaise(loaded) THEN loaded
        ELSE IF loaded.kind /= "list" THEN yaml_dump_scalar(loaded)
        ELSE yaml_dump([playbook_data EXCEPT
                          ![1] = enhance_all(@, context.requirements)])

\* _enhance_with_requirements: a text yaml.safe_load raises a YAMLError on
\* is returned as it is; on data that is not a list of plays the first
\* branch taken raises a TypeError (None and the characters of a str have
\* no "tasks" item), on an empty list an IndexError
enhance_with_requirements(playbook, context) ==
    LET loaded == yaml_safe_load(playbook)
        playbook_data == loaded.data
        branches == \E i \in 1..Len(context.requirements) :
                        context.requirements[i] \in EnhancingRequirements
    IN  IF IsRaise(loaded) THEN playbook
        ELSE IF loaded.kind /= "list"
        THEN IF branches THEN Raise("TypeError", "not subscriptable")
             ELSE yaml_dump_scalar(loaded)
        ELSE IF Len(playbook_data) = 0
        THEN IF branches THEN Raise("IndexError", "list index out of range")
             ELSE yaml_dump(playbook_data)
        ELSE yaml_dump([playbook_data EXCEPT
                          ![1] = enhance_all(@, context.requirements)])

\* An installation extension point that adds a package task.
add_installation_tasks_package(play, context) ==
    [play EXCEPT !.tasks = Append(@,
        [name |-> "Install requested packages", module |-> "package",
         notify |-> None, tags |-> <<"install">>])]

\* _add_installation_tasks, _add_configuration_tasks, _add_deployment_tasks
add_installation_tasks(play, context) == play
add_configuration_tasks(play, context) == play
add_deployment_tasks(play, context) == play

\* _add_custom_tasks: a text yaml.safe_load raises a YAMLError on is
\* returned as it is; None and an empty list have no first item to pass to
\* an extension point, the first character of a str is passed and ignored
add_custom_tasks(playbook, context) ==
    LET loaded == yaml_safe_load(playbook)
        playbook_data == loaded.data
        lower == Lower(context.prompt)
        p1 == IF In("install", lower)
              THEN add_installation_tasks(playbook_data[1], context)
              ELSE playbook_data[1]
        p2 == IF In("configure", lower)
              THEN add_configuration_tasks(p1, context) ELSE p1
        p3 == IF In("deploy", lower)
              THEN add_deployment_tasks(p2, context) ELSE p2
        keyword == \E w \in {"install", "configure", "deploy"} : In(w, lower)
    IN  IF IsRaise(loaded) THEN playbook
        ELSE IF loaded.kind = "none"
        THEN IF keyword THEN Raise("TypeError", "not subscriptable")
             ELSE yaml_dump_scalar(loaded)
        ELSE IF loaded.kind = "str" THEN yaml_dump_scalar(loaded)
        ELSE IF Len(playbook_data) = 0
        THEN IF keyword THEN Raise("IndexError", "list index out of range")
             ELSE yaml_dump(playbook_data)
        ELSE yaml_dump([playbook_data EXCEPT ![1] = p3])

\* prompt[:n]
Prefix(t, n) == SubSeq(t, 1, IF Len(t) < n THEN Len(t) ELSE n)

\* _generate_generic
generate_generic(context) ==
    yaml_dump(<<
      [name |-> "Playbook for: " \o Prefix(context.prompt, 50),
       hosts |-> context.target_hosts,
       options |-> ("become" :> TRUE),
       vars |-> ("environment" :> context.environment),
       tasks |-> <<
         [name |-> "Gather system facts", module |-> "setup",
          notify |-> None, tags |-> <<"always">>],
         [name |-> "Ensure system packages are updated", module |-> "package",
          notify |-> None, tags |-> <<"update">>]
       >>,
       handlers |-> <<>>]
    >>)

-----------------------------------------------------------------------------
(* State                                                                   *)

VARIABLES
    environ,          \* os.environ: variable name -> value, None when unset
    default_provider, \* ai_service.default_provider
    default_model,    \* ai_service.default_model
    templates,        \* ai_service.generator.templates
    faults,           \* whether an unexpected error may strike the fallback
    pc,               \* per call: "idle", "awaiting" (at the POST), "done"
    req,              \* per call: the GenerateRequest
    full_prompt,      \* per call: the enriched prompt
    client,           \* per call: what create_provider returned or raised
    sent,             \* per call: the POSTs issued, in order
    ctx,              \* per call: the PlaybookContext of the fallback path
    resp,             \* per call: the GenerateResponse, or what escaped
    trail,            \* per call: the orchestrator states passed through
    fn,               \* a function application under test: name and inputs
    ret               \* its result

vars == <<environ, default_provider, default_model, templates, faults, pc, req,
          full_prompt, client, sent, ctx, resp, trail, fn, ret>>

service_vars == <<environ, default_provider, default_model, templates, faults>>
call_vars == <<pc, req, full_prompt, client, sent, ctx, resp, trail>>

\* The number of call slots of the service.
NumCalls == 2
Calls == 1..NumCalls

Absent == [k |-> "none"]

-----------------------------------------------------------------------------
(* ai_providers.py: the factory and the generate call                      *)

\* os.getenv(name)
getenv(name) == environ[name]

\* create_provider with the environment consulted before the explicit
\* api_key argument.
create_provider_env_first(provider, model, api_key) ==
    LET provider_name == Lower(OrElse(provider, "gemini"))
    IN  IF provider_name = "gemini"
        THEN LET key == OrElse(getenv("GEMINI_API_KEY"),
                               OrElse(getenv("GOOGLE_API_KEY"), api_key))
             IN  IF ~Truthy(key)
                 THEN Raise("ValueError",
                        "GEMINI_API_KEY or GOOGLE_API_KEY environment variable required")
                 ELSE AIProvider("gemini", key, model)
        ELSE IF provider_name = "openai"
        THEN LET key == OrElse(getenv("OPENAI_API_KEY"), api_key)
             IN  IF ~Truthy(key)
                 THEN Raise("ValueError", "OPENAI_API_KEY environment variable required")
                 ELSE AIProvider("openai", key, model)
        ELSE IF provider_name = "anthropic"
        THEN LET key == OrElse(getenv("ANTHROPIC_API_KEY"), api_key)
             IN  IF ~Truthy(key)
                 THEN Raise("ValueError",
                        "ANTHROPIC_API_KEY environment variable required")
                 ELSE AIProvider("anthropic", key, model)
        ELSE Raise("ValueError",
               "Unknown provider: " \o provider_name
                 \o ". Supported: gemini, openai, anthropic")

\* create_provider without the .lower() of the name.
create_provider_case_sensitive(provider, model, api_key) ==
    LET provider_name == OrElse(provider, "gemini")
    IN  IF provider_name = "gemini"
        THEN LET key == OrElse(api_key, OrElse(getenv("GEMINI_API_KEY"),
                                               getenv("GOOGLE_API_KEY")))
             IN  IF ~Truthy(key)
                 THEN Raise("ValueError",
                        "GEMINI_API_KEY or GOOGLE_API_KEY environment variable required")
                 ELSE AIProvider("gemini", key, model)
        ELSE IF provider_name = "openai"
        THEN LET key == OrElse(api_key, getenv("OPENAI_API_KEY"))
             IN  IF ~Truthy(key)
                 THEN Raise("ValueError", "OPENAI_API_KEY environment variable required")
                 ELSE AIProvider("openai", key, model)
        ELSE IF provider_name = "anthropic"
        THEN LET key == OrElse(api_key, getenv("ANTHROPIC_API_KEY"))
             IN  IF ~Truthy(key)
                 THEN Raise("ValueError",
                        "ANTHROPIC_API_KEY environment variable required")
                 ELSE AIProvider("anthropic", key, model)
        ELSE Raise("ValueError",
               "Unknown provider: " \o provider_name
                 \o ". Supported: gemini, openai, anthropic")

\* create_provider(provider, model, api_key): a client, or the ValueError
create_provider(provider, model, api_key) ==
    LET provider_name == Lower(OrElse(provider, "gemini"))
    IN  IF provider_name = "gemini"
        THEN LET key == OrElse(api_key, OrElse(getenv("GEMINI_API_KEY"),
                                               getenv("GOOGLE_API_KEY")))
             IN  IF ~Truthy(key)
                 THEN Raise("ValueError",
                        "GEMINI_API_KEY or GOOGLE_API_KEY environment variable required")
                 ELSE AIProvider("gemini", key, model)
        ELSE IF provider_name = "openai"
        THEN LET key == OrElse(api_key, getenv("OPENAI_API_KEY"))
             IN  IF ~Truthy(key)
                 THEN Raise("ValueError", "OPENAI_API_KEY environment variable required")
                 ELSE AIProvider("openai", key, model)
        ELSE IF provider_name = "anthropic"
        THEN LET key == OrElse(api_key, getenv("ANTHROPIC_API_KEY"))
             IN  IF ~Truthy(key)
                 THEN Raise("ValueError",
                        "ANTHROPIC_API_KEY environment variable required")
                 ELSE AIProvider("anthropic", key, model)
        ELSE Raise("ValueError",
               "Unknown provider: " \o provider_name
                 \o ". Supported: gemini, openai, anthropic")

\* PLAYBOOK_SYSTEM_PROMPT (its first sentence stands for the whole text)
PLAYBOOK_SYSTEM_PROMPT == "You are an expert Ansible playbook generator."

\* _build_request of the client's class: where the POST goes and where the
\* prompt and the system prompt are put in its body
build_request(cl, prompt, system_prompt) ==
    CASE cl.name = "gemini" ->
           [path |-> "/models/" \o cl.model \o ":generateContent?key=" \o cl.api_key,
            model |-> cl.model,
            system |-> None,
            user |-> IF system_prompt /= "" THEN system_prompt \o "\n\n" \o prompt
                     ELSE prompt]
      [] cl.name = "openai" ->
           [path |-> "/chat/completions",
            model |-> cl.model,
            system |-> IF system_prompt /= "" THEN system_prompt ELSE None,
            user |-> prompt]
      [] cl.name = "anthropic" ->
           [path |-> "/messages",
            model |-> cl.model,
            system |-> IF system_prompt /= "" THEN system_prompt ELSE None,
            user |-> prompt]

\* What comes back from the POST: a transport failure, or a response with a
\* status code and a body that is a JSON value or is unparsable.
TransportFailure == [k |-> "transport"]
Unparsable == [k |-> "unparsable"]
HttpResponse(status, body) == [k |-> "response", status |-> status, body |-> body]

\* AIProvider._post after the await: the parsed body, or the exception that
\* raise_for_status, response.json() or the transport raised and _post
\* re-raises
post_result(reply) ==
    IF reply.k = "transport"
    THEN Raise("TransportError", "request failed")
    ELSE IF reply.status < 200 \/ reply.status > 299
    THEN Raise("HTTPStatusError", "bad status")
    ELSE IF reply.body.k = "unparsable"
    THEN Raise("JSONDecodeError", "body is not JSON")
    ELSE reply.body

\* AIProvider.generate after the await: the extracted text
provider_generate(cl, reply) ==
    LET data == post_result(reply)
    IN  IF IsRaise(data) THEN data ELSE extract_text(cl.name, data)

-----------------------------------------------------------------------------
(* api.py: the orchestrator and the /generate endpoint                     *)

\* A generator that takes the generic-system template for a category that
\* has no template of its own.
generate_system_for_missing(context) ==
    LET base == IF context.playbook_type = None THEN generate_generic(context)
                ELSE IF context.playbook_type \in DOMAIN templates
                THEN templates[context.playbook_type]
                ELSE templates["system"]
    IN  add_custom_tasks(enhance_with_requirements(base, context), context)

\* PlaybookGenerator.generate: template or generic base, then the two
\* augmentation stages
generate(context) ==
    LET base == IF context.playbook_type /= None
                   /\ context.playbook_type \in DOMAIN templates
                THEN templates[context.playbook_type]
                ELSE generate_generic(context)
    IN  add_custom_tasks(enhance_with_requirements(base, context), context)

\* _generate_with_template with the overrides tested by "is not None": an
\* empty string and an empty list replace the analyzer's values too.
generate_with_template_not_none(prompt, target_hosts, environment, tags) ==
    LET analyzed == analyze_prompt(prompt)
        context ==
            [analyzed EXCEPT
               !.target_hosts = IF target_hosts /= None THEN target_hosts ELSE @,
               !.environment = IF environment /= None THEN environment ELSE @,
               !.tags = TagList(tags)]
    IN  [k |-> "result",
         playbook |-> generate(context),
         playbook_type |-> IF context.playbook_type /= None
                           THEN context.playbook_type ELSE "general",
         context |-> context]

\* _generate_with_template: analyze, apply the overrides, generate.  The
\* result carries the context next to the returned pair.
generate_with_template(prompt, target_hosts, environment, tags) ==
    LET analyzed == analyze_prompt(prompt)
        context ==
            [analyzed EXCEPT
               !.target_hosts = IF Truthy(target_hosts) THEN target_hosts ELSE @,
               !.environment = IF Truthy(environment) THEN environment ELSE @,
               !.tags = IF Len(tags) > 0 THEN TagList(tags) ELSE @]
    IN  [k |-> "result",
         playbook |-> generate(context),
         playbook_type |-> IF context.playbook_type /= None
                           THEN context.playbook_type ELSE "general",
         context |-> context]

\* _generate_with_ai after the await: the cleaned playbook, as a JSON str,
\* or the exception raised on the way (a text that is no str has no strip)
generate_with_ai(cl, reply) ==
    LET raw_playbook == provider_generate(cl, reply)
    IN  IF IsRaise(raw_playbook) THEN raw_playbook
        ELSE IF raw_playbook.k /= "str"
        THEN Raise("AttributeError", "object has no attribute 'strip'")
        ELSE JStr(clean_codeblock(raw_playbook.s))

\* The AI path taken whatever the request's flag says.
ai_enabled_always(r) == TRUE

\* AIPlaybookService.generate, "if use_ai:"
ai_enabled(r) == r.use_ai

\* A handler around the AI path that catches the configuration errors only
\* ("except ValueError").
ai_failure_caught_value_error_only(exc) == exc.type = "ValueError"

\* AIPlaybookService.generate, "except Exception as e:" around the AI path:
\* whether the handler catches the exception
ai_failure_caught(exc) == TRUE

\* The fallback called with the enriched prompt in place of the prompt.
template_fallback_on_enriched(r, enriched) ==
    generate_with_template(enriched, r.target_hosts, r.environment, r.tags)

\* AIPlaybookService.generate, its last statement: the fallback call
template_fallback(r, enriched) ==
    generate_with_template(r.prompt, r.target_hosts, r.environment, r.tags)

\* The fallback call when an unexpected error strikes inside it (fault): the
\* code raises nothing there by itself.
fallback_outcome(r, enriched, fault) ==
    IF fault THEN Raise("RuntimeError", "unexpected error in the fallback path")
    ELSE template_fallback(r, enriched)

GenerateResponse(success, playbook, playbook_type, error) ==
    [k |-> "response", success |-> success, playbook |-> playbook,
     playbook_type |-> playbook_type, error |-> error]

\* An endpoint handler that catches the configuration errors only.
endpoint_catches_value_error_only(exc) == exc.type = "ValueError"

\* generate_playbook, "except Exception as e:" of the endpoint
endpoint_catches(exc) == TRUE

\* generate_playbook: the response for what ai_service.generate returned or
\* raised; an exception the endpoint does not catch escapes as it is
generate_playbook_response(outcome) ==
    IF ~IsRaise(outcome)
    THEN GenerateResponse(TRUE, outcome.playbook, outcome.playbook_type, None)
    ELSE IF endpoint_catches(outcome)
    THEN GenerateResponse(FALSE, Absent, None, outcome.msg)
    ELSE outcome

\* A request model whose environment field has no default value.
parse_request_without_default(body) ==
    LET field(name, default) == IF name \in DOMAIN body THEN body[name] ELSE default
    IN  [prompt |-> body["prompt"],
         target_hosts |-> field("target_hosts", "all"),
         environment |-> field("environment", None),
         tags |-> field("tags", <<>>),
         provider |-> field("provider", None),
         model |-> field("model", None),
         use_ai |-> field("use_ai", TRUE)]

\* class GenerateRequest: the request parsed from a JSON body, a field that
\* is not in the body taking its default value
parse_request(body) ==
    LET field(name, default) == IF name \in DOMAIN body THEN body[name] ELSE default
    IN  [prompt |-> body["prompt"],
         target_hosts |-> field("target_hosts", "all"),
         environment |-> field("environment", "production"),
         tags |-> field("tags", <<>>),
         provider |-> field("provider", None),
         model |-> field("model", None),
         use_ai |-> field("use_ai", TRUE)]

\* The end of a call c with the outcome of ai_service.generate, after the
\* orchestrator states in passed.
Finish(c, outcome, passed) ==
    /\ pc' = [pc EXCEPT ![c] = "done"]
    /\ resp' = [resp EXCEPT ![c] = generate_playbook_response(outcome)]
    /\ ctx' = [ctx EXCEPT ![c] = IF ~IsRaise(outcome) /\ "context" \in DOMAIN outcome
                                 THEN outcome.context ELSE @]
    /\ trail' = [trail EXCEPT ![c] = @ \o passed \o <<"Done">>]

\* generate_playbook up to the await of the POST: the request r arrives,
\* the prompt is enriched and, with AI enabled, the provider is resolved and
\* the POST issued; without a POST the call runs to its response.
StartGenerate(c, r, fault) ==
    /\ pc[c] = "idle"
    /\ LET enriched == build_full_prompt(r.prompt, r.target_hosts,
                                         r.environment, r.tags)
           provider_name == OrElse(r.provider, default_provider)
           model_name == OrElse(r.model, default_model)
           cl == IF ai_enabled(r)
                 THEN create_provider(provider_name, model_name, None)
                 ELSE Absent
       IN  /\ req' = [req EXCEPT ![c] = r]
           /\ full_prompt' = [full_prompt EXCEPT ![c] = enriched]
           /\ client' = [client EXCEPT ![c] = cl]
           /\ IF cl.k = "client"
              THEN /\ sent' = [sent EXCEPT ![c] =
                         Append(@, build_request(cl, enriched, PLAYBOOK_SYSTEM_PROMPT))]
                   /\ pc' = [pc EXCEPT ![c] = "awaiting"]
                   /\ trail' = [trail EXCEPT ![c] = <<"BuildingPrompt", "TryingAI">>]
                   /\ UNCHANGED <<ctx, resp>>
              ELSE /\ sent' = sent
                   /\ IF IsRaise(cl) /\ ~ai_failure_caught(cl)
                      THEN Finish(c, cl, <<"BuildingPrompt", "TryingAI">>)
                      ELSE Finish(c, fallback_outcome(r, enriched, fault),
                                  IF IsRaise(cl)
                                  THEN <<"BuildingPrompt", "TryingAI", "FallingBack">>
                                  ELSE <<"BuildingPrompt", "FallingBack">>)
    /\ UNCHANGED <<service_vars, fn, ret>>

\* An AI path that accepts a cleaned text only when it is not empty and
\* starts as a YAML document or list, and falls back otherwise.
AISucceeds_validating(c, reply) ==
    /\ pc[c] = "awaiting"
    /\ LET playbook == generate_with_ai(client[c], reply)
       IN  /\ ~IsRaise(playbook)
           /\ IF StartsWith(playbook.s, "-")
              THEN Finish(c, [k |-> "result",
                              playbook |-> PlainText(playbook.s),
                              playbook_type |-> detect_playbook_type(playbook.s)],
                          <<"Success">>)
              ELSE Finish(c, template_fallback(req[c], full_prompt[c]),
                          <<"FallingBack">>)
    /\ UNCHANGED <<service_vars, req, full_prompt, client, sent, fn, ret>>

\* An AI path whose success is followed by the fallback all the same.
AISucceeds_then_fallback(c, reply) ==
    /\ pc[c] = "awaiting"
    /\ LET playbook == generate_with_ai(client[c], reply)
       IN  /\ ~IsRaise(playbook)
           /\ Finish(c, template_fallback(req[c], full_prompt[c]),
                     <<"Success", "FallingBack">>)
    /\ UNCHANGED <<service_vars, req, full_prompt, client, sent, fn, ret>>

\* The POST of call c is answered and the text is extracted and cleaned:
\* the call ends with the AI playbook and its label.
AISucceeds(c, reply) ==
    /\ pc[c] = "awaiting"
    /\ LET playbook == generate_with_ai(client[c], reply)
       IN  /\ ~IsRaise(playbook)
           /\ Finish(c, [k |-> "result",
                         playbook |-> PlainText(playbook.s),
                         playbook_type |-> detect_playbook_type(playbook.s)],
                     <<"Success">>)
    /\ UNCHANGED <<service_vars, req, full_prompt, client, sent, fn, ret>>

\* A fallback that reads the request from an attribute of the shared
\* service, where any call that has started may have written its own.
AIFails_shared_request(c, reply, fault) ==
    /\ pc[c] = "awaiting"
    /\ LET playbook == generate_with_ai(client[c], reply)
       IN  /\ IsRaise(playbook)
           /\ \E d \in Calls :
                 /\ req[d] /= Absent
                 /\ Finish(c, fallback_outcome(req[d], full_prompt[d], fault),
                           <<"FallingBack">>)
    /\ UNCHANGED <<service_vars, req, full_prompt, client, sent, fn, ret>>

\* A failed POST that is issued once more before the call falls back.
AIFails_retrying(c, reply, fault) ==
    /\ pc[c] = "awaiting"
    /\ LET playbook == generate_with_ai(client[c], reply)
       IN  /\ IsRaise(playbook)
           /\ IF Len(sent[c]) < 2
              THEN /\ sent' = [sent EXCEPT ![c] = Append(@, @[1])]
                   /\ UNCHANGED <<pc, ctx, resp, trail>>
              ELSE /\ sent' = sent
                   /\ Finish(c, fallback_outcome(req[c], full_prompt[c], fault),
                             <<"FallingBack">>)
    /\ UNCHANGED <<service_vars, req, full_prompt, client, fn, ret>>

\* The POST of call c fails, or its answer is no usable text: the exception
\* is caught and the call ends with the fallback.
AIFails(c, reply, fault) ==
    /\ pc[c] = "awaiting"
    /\ LET playbook == generate_with_ai(client[c], reply)
       IN  /\ IsRaise(playbook)
           /\ IF ai_failure_caught(playbook)
              THEN Finish(c, fallback_outcome(req[c], full_prompt[c], fault),
                          <<"FallingBack">>)
              ELSE Finish(c, playbook, <<>>)
    /\ UNCHANGED <<service_vars, req, full_prompt, client, sent, fn, ret>>

\* The response of call c is delivered and the call's values are dropped.
Return(c) ==
    /\ pc[c] = "done"
    /\ pc' = [pc EXCEPT ![c] = "idle"]
    /\ req' = [req EXCEPT ![c] = Absent]
    /\ full_prompt' = [full_prompt EXCEPT ![c] = None]
    /\ client' = [client EXCEPT ![c] = Absent]
    /\ sent' = [sent EXCEPT ![c] = <<>>]
    /\ ctx' = [ctx EXCEPT ![c] = Absent]
    /\ resp' = [resp EXCEPT ![c] = Absent]
    /\ trail' = [trail EXCEPT ![c] = <<>>]
    /\ UNCHANGED <<service_vars, fn, ret>>

-----------------------------------------------------------------------------
(* Inputs of the service specifications                                    *)

EnvNames ==
    {"GEMINI_API_KEY", "GOOGLE_API_KEY", "OPENAI_API_KEY", "ANTHROPIC_API_KEY",
     "AI_PROVIDER", "AI_MODEL"}

Environ(gemini, google, openai, anthropic, provider, model) ==
    ("GEMINI_API_KEY" :> gemini) @@ ("GOOGLE_API_KEY" :> google) @@
    ("OPENAI_API_KEY" :> openai) @@ ("ANTHROPIC_API_KEY" :> anthropic) @@
    ("AI_PROVIDER" :> provider) @@ ("AI_MODEL" :> model)

\* The environments the service is started in.
Environs ==
    { Environ(None, None, None, None, None, None),
      Environ("g-key", None, None, None, None, None),
      Environ("", "google-key", "o-key", None, "", "gemini-2.5-pro"),
      Environ(None, None, "o-key", "a-key", "openai", None),
      Environ("g-key", "google-key", "o-key", "a-key", "anthropic", None) }

Prompts ==
    { "Deploy a kubernetes application with monitoring",
      "Harden system security",
      "Install nginx with failover and backup",
      "Set up a web server",
      "Secure the docker registry, encrypt traffic on staging",
      "Configure PostgreSQL database with replication and backup" }

\* (target_hosts, environment, tags) of a request: the defaults of
\* GenerateRequest, explicit nulls, and values that carry analyzer keywords.
Overrides ==
    { <<"all", "production", <<>>>>,
      <<None, None, <<>>>>,
      <<"docker", "staging", <<"kubernetes", "install">>>>,
      <<"all", "staging", <<>>>>,
      <<"webservers", "", <<"web">>>> }

\* (provider, model) of a request
ProviderChoices ==
    { <<None, None>>, <<"gemini", None>>, <<"openai", "gpt-4o">>,
      <<"openai", None>>, <<"Anthropic", None>>, <<"cohere", None>> }

GenerateRequest(prompt, target_hosts, environment, tags, provider, model, use_ai) ==
    [prompt |-> prompt, target_hosts |-> target_hosts,
     environment |-> environment, tags |-> tags,
     provider |-> provider, model |-> model, use_ai |-> use_ai]

Requests ==
    { GenerateRequest(p, o[1], o[2], o[3], pm[1], pm[2], ai) :
        p \in Prompts, o \in Overrides, pm \in ProviderChoices, ai \in BOOLEAN }

\* Texts a provider may answer with.
AITexts ==
    { "---\n- hosts: all\n  tasks: []",
      "~~~yaml\n- name: deploy to k8s with docker\n~~~",
      "~~~\n- name: run Docker and nginx\n~~~\n",
      "- name: install Nginx\n  notify: restart ssh",
      "Here is MySQL behind Apache",
      "- name: postgres with grafana",
      "- name: Prometheus and firewall",
      "  - name: open ssh\n",
      "",
      "~~~yml\n- hosts: all\n~~~" }

\* Response bodies of the shape each provider documents.
GeminiBody(text) ==
    JDict("candidates" :> JList(<<
        JDict("content" :> JDict("parts" :> JList(<<JDict("text" :> text)>>)))>>))
OpenAIBody(text) ==
    JDict("choices" :> JList(<<JDict("message" :> JDict("content" :> text))>>))
AnthropicBody(text) ==
    JDict("content" :> JList(<<JDict("text" :> text)>>))

\* The body of the shape the provider name documents.
BodyOf(name, text) ==
    CASE name = "gemini"    -> GeminiBody(text)
      [] name = "openai"    -> OpenAIBody(text)
      [] name = "anthropic" -> AnthropicBody(text)

\* What the provider of a client of this name may answer: a failure, an
\* error status, a body that is no JSON, a body of another shape, a body of
\* its shape with a text that is no str, or with one of the texts.
Replies(name) ==
    { TransportFailure,
      HttpResponse(500, JDict("error" :> JStr("internal"))),
      HttpResponse(200, Unparsable),
      HttpResponse(200, JDict("error" :> JStr("overloaded"))),
      HttpResponse(200, JList(<<>>)),
      HttpResponse(200, BodyOf(name, JNull)) }
    \cup { HttpResponse(200, BodyOf(name, JStr(t))) : t \in AITexts }

\* The answers call c may receive: none before it has a client.
RepliesTo(c) ==
    IF client[c].k = "client" THEN Replies(client[c].name) ELSE {}

-----------------------------------------------------------------------------
(* The service: one call at a time                                         *)

InitCalls ==
    /\ pc = [c \in Calls |-> "idle"]
    /\ req = [c \in Calls |-> Absent]
    /\ full_prompt = [c \in Calls |-> None]
    /\ client = [c \in Calls |-> Absent]
    /\ sent = [c \in Calls |-> <<>>]
    /\ ctx = [c \in Calls |-> Absent]
    /\ resp = [c \in Calls |-> Absent]
    /\ trail = [c \in Calls |-> <<>>]

\* AIPlaybookService.__init__ in the environment env
InitService(env) ==
    /\ environ = env
    /\ default_provider = IF env["AI_PROVIDER"] = None THEN "gemini"
                          ELSE env["AI_PROVIDER"]
    /\ default_model = env["AI_MODEL"]
    /\ templates = load_templates

Init ==
    /\ \E env \in Environs : InitService(env)
    /\ faults = {FALSE}
    /\ InitCalls
    /\ fn = Absent
    /\ ret = Absent

Next ==
    \/ \E r \in Requests, f \in faults : StartGenerate(1, r, f)
    \/ \E reply \in RepliesTo(1) : AISucceeds(1, reply)
    \/ \E reply \in RepliesTo(1), f \in faults : AIFails(1, reply, f)
    \/ Return(1)

Spec == Init /\ [][Next]_vars

TypeOK ==
    /\ \A c \in Calls : pc[c] \in {"idle", "awaiting", "done"}
    /\ \A c \in Calls : Len(sent[c]) >= 0

-----------------------------------------------------------------------------
(* The service when an unexpected error may strike inside the fallback     *)

InitFault ==
    /\ \E env \in Environs : InitService(env)
    /\ faults = BOOLEAN
    /\ InitCalls
    /\ fn = Absent
    /\ ret = Absent

SpecFault == InitFault /\ [][Next]_vars

-----------------------------------------------------------------------------
(* Single calls of the functions: fn holds the call, ret what it returned  *)

\* Names, models and credentials create_provider is called with.
ProviderNames ==
    {None, "", "gemini", "openai", "anthropic", "OpenAI", "GEMINI", "cohere"}
ModelNames == {None, "gpt-4o"}
ApiKeys == {None, "", "arg-key"}

Call_create_provider(provider, model, api_key) ==
    /\ fn' = [k |-> "call", name |-> "create_provider", provider |-> provider,
              model |-> model, api_key |-> api_key]
    /\ ret' = create_provider(provider, model, api_key)
    /\ UNCHANGED <<service_vars, call_vars>>

\* Texts _clean_codeblock is called with: a body between margins of
\* whitespace, bare or wrapped in an opening fence with a language tag ("" for
\* none) and a closing fence.
FenceTags == {"", "yaml", "yml", "YAML", "json"}
Margins == {"", "\n", "  "}
FencedBodies ==
    {"- hosts: all", "- name: x\n  tasks: []", "---\n- hosts: web\n  become: true"}

Call_clean_codeblock(lead, tag, body, trailing, fenced) ==
    LET text == IF fenced
                THEN lead \o "~~~" \o tag \o "\n" \o body \o "\n~~~" \o trailing
                ELSE lead \o body \o trailing
    IN  /\ fn' = [k |-> "call", name |-> "_clean_codeblock", text |-> text,
                  fenced |-> fenced, tag |-> tag, body |-> body]
        /\ ret' = JStr(clean_codeblock(text))
        /\ UNCHANGED <<service_vars, call_vars>>

NextFunctions ==
    \/ \E provider \in ProviderNames, model \in ModelNames, api_key \in ApiKeys :
           Call_create_provider(provider, model, api_key)
    \/ \E lead \in Margins, tag \in FenceTags, body \in FencedBodies,
          trailing \in Margins :
           Call_clean_codeblock(lead, tag, body, trailing, TRUE)
    \/ \E lead \in Margins, body \in FencedBodies, trailing \in Margins :
           Call_clean_codeblock(lead, "", body, trailing, FALSE)

SpecFunctions == Init /\ [][NextFunctions]_vars

Called(name) == fn.k = "call" /\ fn.name = name

-----------------------------------------------------------------------------
(* Properties of the orchestrator and the endpoint                         *)

\* Call c has passed the orchestrator state s.
Passed(c, s) == \E i \in 1..Len(trail[c]) : trail[c][i] = s

\* Call c has ended with the AI path enabled and failed: the provider was not
\* resolved, or the POST or the reading of its answer raised.
AIPathFailed(c) ==
    /\ pc[c] = "done"
    /\ req[c].use_ai
    /\ ~Passed(c, "Success")

\* The label _generate_with_template gives the category of a context.
LabelOf(context) ==
    IF context.playbook_type /= None THEN context.playbook_type ELSE "general"

\* C1: whenever a request with the AI path enabled ends after the provider
\* resolution or the provider's generate call failed (unknown provider,
\* missing credential, HTTP error status, transport failure, invalid shape),
\* the caller receives success=true with the document and the label the
\* template fallback builds for the request, and no error.
C1_AIFailureFallsBack ==
    \A c \in Calls :
        AIPathFailed(c) =>
            /\ resp[c].k = "response"
            /\ resp[c].success
            /\ resp[c].error = None
            /\ ctx[c] /= Absent
            /\ ctx[c].prompt = req[c].prompt
            /\ resp[c].playbook = generate(ctx[c])
            /\ resp[c].playbook_type = LabelOf(ctx[c])

\* A call whose POST was sent and failed, answered from the fallback.
C1_Witness ==
    \E c \in Calls :
        /\ AIPathFailed(c)
        /\ client[c].k = "client"
        /\ Len(sent[c]) = 1
        /\ resp[c].k = "response"
        /\ resp[c].success

\* C2: no exception escapes the endpoint: every response is success=true with
\* a document and a label and no error, or success=false with an error
\* message and no document, also when the fallback itself fails.
C2_NoExceptionEscapes ==
    \A c \in Calls :
        pc[c] = "done" =>
            /\ resp[c].k = "response"
            /\ \/ /\ resp[c].success
                  /\ resp[c].playbook /= Absent
                  /\ resp[c].playbook_type /= None
                  /\ resp[c].error = None
               \/ /\ ~resp[c].success
                  /\ resp[c].playbook = Absent
                  /\ resp[c].playbook_type = None
                  /\ resp[c].error /= None

\* A call whose AI path failed and whose fallback raised: a structured
\* failure.
C2_Witness ==
    \E c \in Calls :
        /\ pc[c] = "done"
        /\ Passed(c, "TryingAI")
        /\ Passed(c, "FallingBack")
        /\ resp[c].k = "response"
        /\ ~resp[c].success
        /\ resp[c].error = "unexpected error in the fallback path"

\* C3: a request with the AI flag disabled never resolves a provider and
\* never issues a POST, and its document and label are the ones the template
\* fallback builds.
C3_AIDisabledNoProviderCall ==
    \A c \in Calls :
        (req[c] /= Absent /\ ~req[c].use_ai) =>
            /\ client[c] = Absent
            /\ sent[c] = <<>>
            /\ ~Passed(c, "TryingAI")
            /\ pc[c] = "done" =>
                  /\ resp[c].k = "response"
                  /\ resp[c].success
                  /\ ctx[c] /= Absent
                  /\ resp[c].playbook = generate(ctx[c])
                  /\ resp[c].playbook_type = LabelOf(ctx[c])

\* A call with the AI flag disabled in a service where the provider it names
\* could have been resolved.
C3_Witness ==
    \E c \in Calls :
        /\ pc[c] = "done"
        /\ req[c] /= Absent
        /\ ~req[c].use_ai
        /\ create_provider(OrElse(req[c].provider, default_provider),
                           OrElse(req[c].model, default_model), None).k = "client"
        /\ resp[c].k = "response"
        /\ resp[c].success

\* C4: over the life of a request at most one POST is issued: exactly one
\* once a provider is resolved, the one carrying the enriched prompt, and no
\* further one after it failed.
C4_AtMostOnePost ==
    \A c \in Calls :
        /\ Len(sent[c]) <= 1
        /\ client[c].k = "client" =>
              /\ Len(sent[c]) = 1
              /\ sent[c][1] = build_request(client[c], full_prompt[c],
                                            PLAYBOOK_SYSTEM_PROMPT)
        /\ client[c].k /= "client" => sent[c] = <<>>

\* A call that ended in the fallback after its single POST failed.
C4_Witness ==
    \E c \in Calls :
        /\ pc[c] = "done"
        /\ Passed(c, "FallingBack")
        /\ client[c].k = "client"
        /\ sent[c] = <<build_request(client[c], full_prompt[c],
                                     PLAYBOOK_SYSTEM_PROMPT)>>

\* The enriched prompt as the context block is described: a line for the
\* host selector, the environment and the tags, each only when the field is
\* neither empty nor its default ("all", "production", no tags).
described_full_prompt(r) ==
    LET hostPart == IF Truthy(r.target_hosts) /\ r.target_hosts /= "all"
                    THEN <<"Target hosts: " \o r.target_hosts>> ELSE <<>>
        envPart  == IF Truthy(r.environment) /\ r.environment /= "production"
                    THEN <<"Environment: " \o r.environment>> ELSE <<>>
        tagPart  == IF Len(r.tags) > 0
                    THEN <<"Tags: " \o Join(", ", r.tags)>> ELSE <<>>
        parts == hostPart \o envPart \o tagPart
    IN  IF Len(parts) > 0
        THEN r.prompt \o "\n\nAdditional context:\n" \o Join("\n", parts)
        ELSE r.prompt

\* C5: the enriched prompt carries a context line for the host selector, the
\* environment and the tags only for a field that is non-default and
\* non-empty; with host selector "all", environment "production" and no tags
\* it equals the user prompt.
C5_ContextOnlyForNonDefault ==
    \A c \in Calls :
        req[c] /= Absent =>
            /\ full_prompt[c] = described_full_prompt(req[c])
            /\ ( /\ req[c].target_hosts = "all"
                 /\ req[c].environment = "production"
                 /\ req[c].tags = <<>> ) => full_prompt[c] = req[c].prompt

\* C6: on the fallback path the analyzer runs on the original prompt: the
\* category, the requirements and (without a tag override) the tags of the
\* context, and the label of the response, are those of the analysis of the
\* request's prompt, whatever the context block of the enriched prompt says.
C6_FallbackAnalyzesOriginalPrompt ==
    \A c \in Calls :
        (pc[c] = "done" /\ ctx[c] /= Absent) =>
            LET analyzed == analyze_prompt(req[c].prompt)
            IN  /\ ctx[c].prompt = req[c].prompt
                /\ ctx[c].playbook_type = analyzed.playbook_type
                /\ ctx[c].requirements = analyzed.requirements
                /\ Len(req[c].tags) = 0 => ctx[c].tags = analyzed.tags
                /\ resp[c].k = "response" => resp[c].playbook_type = LabelOf(analyzed)

\* A fallback whose category differs from the one the analyzer finds in the
\* enriched prompt: the host selector or a tag carries a category keyword.
C6_Witness ==
    \E c \in Calls :
        /\ pc[c] = "done"
        /\ ctx[c] /= Absent
        /\ full_prompt[c] /= req[c].prompt
        /\ analyze_prompt(full_prompt[c]).playbook_type /= ctx[c].playbook_type
        /\ resp[c].k = "response"
        /\ resp[c].playbook_type = LabelOf(ctx[c])

\* The label of an AI text by the described priority list.  The list names
\* the categories in its own words: container-runtime is PlaybookType.DOCKER
\* ("docker"), network is PlaybookType.NETWORK ("network"), and generic is the
\* label of a text without category ("general").
described_label(text) ==
    LET lower == Lower(text)
    IN  IF In("kubernetes", lower) \/ In("k8s", lower) THEN "kubernetes"
        ELSE IF In("docker", lower) THEN "docker"
        ELSE IF In("nginx", lower) \/ In("apache", lower) THEN "network"
        ELSE IF In("postgres", lower) \/ In("mysql", lower) THEN "database"
        ELSE IF In("prometheus", lower) \/ In("grafana", lower) THEN "monitoring"
        ELSE IF In("firewall", lower) \/ In("ssh", lower) THEN "security"
        ELSE "general"

\* C8: on AI success the label is the one the priority list gives the
\* cleaned AI text: kubernetes/k8s, else docker (container-runtime), else
\* nginx/apache as network, else postgres/mysql as database, else
\* prometheus/grafana as monitoring, else firewall/ssh as security, else
\* generic.
C8_LabelByPriorityList ==
    \A c \in Calls :
        (pc[c] = "done" /\ Passed(c, "Success")) =>
            /\ resp[c].k = "response"
            /\ resp[c].playbook.k = "text"
            /\ resp[c].playbook_type = described_label(resp[c].playbook.s)

-----------------------------------------------------------------------------
(* Properties of the functions                                             *)

\* C7: the cleanup leaves no leading or trailing whitespace; of a text
\* wrapped in an opening fence, with or without a language tag, and a closing
\* fence it leaves neither fence nor the language tag, that is the stripped
\* body; a text without fences is returned stripped.
C7_CleanupRemovesOneFence ==
    Called("_clean_codeblock") =>
        /\ ret.s = Strip(ret.s)
        /\ fn.fenced =>
              /\ ~In("~~~", ret.s)
              /\ fn.tag /= "" => ~StartsWith(ret.s, fn.tag)
              /\ ret.s = Strip(fn.body)
        /\ ~fn.fenced => ret.s = Strip(fn.text)

SupportedProviders == {"gemini", "openai", "anthropic"}

\* The environment variables that may hold the credential of a provider, in
\* the order they are consulted.
CredentialVariables(name) ==
    CASE name = "gemini"    -> <<"GEMINI_API_KEY", "GOOGLE_API_KEY">>
      [] name = "openai"    -> <<"OPENAI_API_KEY">>
      [] name = "anthropic" -> <<"ANTHROPIC_API_KEY">>

\* The missing-credential error of a provider.
IsMissingCredential(v, name) ==
    /\ IsRaise(v)
    /\ v.type = "ValueError"
    /\ v.msg = Join(" or ", CredentialVariables(name))
                 \o " environment variable required"

IsUnknownProvider(v) ==
    /\ IsRaise(v)
    /\ v.type = "ValueError"
    /\ StartsWith(v.msg, "Unknown provider: ")

\* C9: for each of the three provider names create_provider returns a client
\* of that name holding the first credential found among the explicit
\* argument and then the provider's environment variables; when none of them
\* holds a credential it raises the missing-credential error.
C9_ClientOrMissingCredential ==
    (Called("create_provider") /\ fn.provider \in SupportedProviders) =>
        LET names == CredentialVariables(fn.provider)
            candidates == <<fn.api_key>> \o [i \in 1..Len(names) |-> environ[names[i]]]
            held == SelectSeq(candidates, Truthy)
        IN  IF Len(held) > 0
            THEN /\ ret.k = "client"
                 /\ ret.name = fn.provider
                 /\ ret.api_key = held[1]
            ELSE IsMissingCredential(ret, fn.provider)

\* The credential is found in the second environment variable of the
\* provider, the first one being set but empty and no argument given.
C9_Witness ==
    /\ Called("create_provider")
    /\ fn.provider = "gemini"
    /\ fn.api_key = None
    /\ environ["GEMINI_API_KEY"] = ""
    /\ ret.k = "client"
    /\ ret.name = "gemini"
    /\ ret.api_key = environ["GOOGLE_API_KEY"]

\* C10 as stated: every name outside the closed set of the three provider
\* names gets the unknown-provider error, and an empty or unset name is
\* treated as the first provider, gemini.
C10_UnknownOutsideClosedSet ==
    Called("create_provider") =>
        /\ (Truthy(fn.provider) /\ fn.provider \notin SupportedProviders)
              => IsUnknownProvider(ret)
        /\ ~Truthy(fn.provider) =>
              \/ ret.k = "client" /\ ret.name = "gemini"
              \/ IsMissingCredential(ret, "gemini")

\* C10 amended: the name is compared in lower case.  A name whose lower-case
\* form is outside the closed set gets the unknown-provider error, which
\* names the lower-case form; a name whose lower-case form is in the set
\* never does, it gets that provider's client or missing-credential error;
\* an empty or unset name is treated as gemini.
C10_UnknownOutsideClosedSetIgnoringCase ==
    Called("create_provider") =>
        /\ (Truthy(fn.provider) /\ Lower(fn.provider) \notin SupportedProviders)
              => /\ IsUnknownProvider(ret)
                 /\ ret.msg = "Unknown provider: " \o Lower(fn.provider)
                                \o ". Supported: gemini, openai, anthropic"
        /\ (Truthy(fn.provider) /\ Lower(fn.provider) \in SupportedProviders)
              => \/ ret.k = "client" /\ ret.name = Lower(fn.provider)
                 \/ IsMissingCredential(ret, Lower(fn.provider))
        /\ ~Truthy(fn.provider) =>
              \/ ret.k = "client" /\ ret.name = "gemini"
              \/ IsMissingCredential(ret, "gemini")

\* A name in mixed case is resolved to the provider of its lower-case form.
C10_Witness ==
    /\ Called("create_provider")
    /\ fn.provider = "OpenAI"
    /\ ret.k = "client"
    /\ ret.name = "openai"

-----------------------------------------------------------------------------
(* Properties of the provider clients                                      *)

\* C11: when the request names no model, the client that serves it uses
\* the built-in default model of its own provider: no default model of the
\* service is applied across providers.
C11_OwnDefaultModel ==
    \A c \in Calls :
        (client[c].k = "client" /\ ~Truthy(req[c].model)) =>
            client[c].model = default_model_of(client[c].name)

\* Parsed bodies _extract_text is called with.
EmptyDict == JDict([key \in {} |-> JNull])
ExtractTexts == {JStr("- hosts: all"), JNull}

\* What a list of candidates, choices or content blocks may hold first.
FirstElements ==
    {JNull, JNum, EmptyDict, JStr("message content parts text"),
     JDict("content" :> JNull), JDict("message" :> JNull),
     JDict("content" :> EmptyDict), JDict("message" :> EmptyDict),
     JDict("content" :> JDict("parts" :> JNull)),
     JDict("content" :> JDict("parts" :> JList(<<>>))),
     JDict("content" :> JDict("parts" :> JList(<<JNull>>))),
     JDict("content" :> JDict("parts" :> JList(<<EmptyDict>>)))}

ExtractBodies ==
    {JNull, JNum, JStr("content"), JList(<<>>), JList(<<JStr("content")>>),
     EmptyDict}
    \cup {JDict(key :> v) : key \in {"candidates", "choices", "content"},
                            v \in {JNull, JStr("text"), JList(<<>>)}}
    \cup {JDict(key :> JList(<<first>>)) :
              key \in {"candidates", "choices", "content"},
              first \in FirstElements}
    \cup {BodyOf(name, text) : name \in {"gemini", "openai", "anthropic"},
                               text \in ExtractTexts}

Call_extract_text(provider, data) ==
    /\ fn' = [k |-> "call", name |-> "_extract_text", provider |-> provider,
              data |-> data]
    /\ ret' = extract_text(provider, data)
    /\ UNCHANGED <<service_vars, call_vars>>

NextExtract ==
    \E provider \in {"gemini", "openai", "anthropic"}, data \in ExtractBodies :
        Call_extract_text(provider, data)

SpecExtract == Init /\ [][NextExtract]_vars

\* C12: _extract_text of each provider returns the text field of the first
\* candidate of a body of the provider's shape, and on any other body it
\* raises the invalid-response-structure ValueError, never another error.
C12_InvalidShapeOnly ==
    Called("_extract_text") =>
        /\ \A text \in ExtractTexts :
               fn.data = BodyOf(fn.provider, text) => ret = text
        /\ IsRaise(ret) =>
               /\ ret.type = "ValueError"
               /\ StartsWith(ret.msg, "Invalid response structure from ")
        /\ (\A text \in ExtractTexts : fn.data /= BodyOf(fn.provider, text))
               => IsRaise(ret)

-----------------------------------------------------------------------------
(* Single calls of the prompt analyzer                                     *)

\* Words the analyzed prompts are made of: vocabulary of the category
\* patterns in several cases, words that only contain such a word, and
\* words of no category.
AnalyzerWords ==
    {"kubernetes", "docker", "Docker", "K8S", "postgres", "grafana", "ssh",
     "nginx", "dockerized", "pods", "servers"}

AnalyzerPrompts ==
    {"Set up the servers", "Balance the load-balancer", ""}
    \cup {"Deploy " \o w : w \in AnalyzerWords}
    \cup {"Run " \o w1 \o " with " \o w2 : w1 \in AnalyzerWords, w2 \in AnalyzerWords}

\* One call of analyze_prompt.
Call_analyze_prompt(prompt) ==
    /\ fn = Absent
    /\ fn' = [k |-> "call", name |-> "analyze_prompt", prompt |-> prompt]
    /\ ret' = analyze_prompt(prompt)
    /\ UNCHANGED <<service_vars, call_vars>>

\* The words of a text in lower case: its maximal runs of word characters.
WordsOf(t) ==
    {Lower(SubSeq(t, i, j - 1)) :
        <<i, j>> \in {b \in (1..(Len(t) + 1)) \X (1..(Len(t) + 1)) :
                         /\ b[1] < b[2]
                         /\ Boundary(t, b[1]) /\ Boundary(t, b[2])
                         /\ \A n \in b[1]..(b[2] - 1) : IsWordAt(t, n)}}

\* The category patterns that match a text, as positions in the order.
MatchingPatterns(t) == {n \in 1..Len(patterns) : Search(patterns[n].alts, t)}

\* C13: the category of a prompt is that of the first pattern, in the fixed
\* order, that matches a word of the prompt; without a match it is unset; a
\* prompt with the words kubernetes and docker, in either order, is
\* kubernetes.
C13_FirstMatchInPatternOrder ==
    Called("analyze_prompt") =>
        LET matching == MatchingPatterns(fn.prompt)
            words == WordsOf(fn.prompt)
        IN  /\ matching = {} => ret.playbook_type = None
            /\ matching /= {} =>
                  \E n \in matching :
                      /\ \A m \in matching : n <= m
                      /\ ret.playbook_type = patterns[n].name
            /\ ("kubernetes" \in words /\ "docker" \in words)
                  => ret.playbook_type = "kubernetes"
            /\ (\A n \in 1..Len(patterns) : \A a \in 1..Len(patterns[n].alts) :
                    patterns[n].alts[a] \notin words)
                  => (ret.playbook_type = None
                      \/ Search(<<"load.?balanc">>, fn.prompt))

\* A prompt that names docker before kubernetes is classified kubernetes.
C13_Witness ==
    /\ Called("analyze_prompt")
    /\ fn.prompt = "Run docker with kubernetes"
    /\ ret.playbook_type = "kubernetes"

\* Words the prompts of the tag generation are made of: the action
\* keywords, words that contain one, and other words.
TagWords ==
    {"install", "Install", "configure", "deploy", "update", "backup",
     "restore", "monitor", "secure", "reinstall", "monitoring", "nginx"}

TagPrompts ==
    {"", "Set up the servers"}
    \cup {"Please " \o w1 \o " and " \o w2 \o " it" : w1 \in TagWords, w2 \in TagWords}

\* Two calls of _generate_tags: on a prompt, and on a text that repeats it.
Call_generate_tags(prompt) ==
    /\ fn = Absent
    /\ fn' = [k |-> "call", name |-> "_generate_tags", prompt |-> prompt,
              repeated |-> prompt \o " then " \o prompt]
    /\ ret' = [once |-> generate_tags(prompt),
               twice |-> generate_tags(prompt \o " then " \o prompt)]
    /\ UNCHANGED <<service_vars, call_vars>>

NextAnalyzer ==
    \/ \E prompt \in AnalyzerPrompts : Call_analyze_prompt(prompt)
    \/ \E prompt \in TagPrompts : Call_generate_tags(prompt)

SpecAnalyzer == Init /\ [][NextAnalyzer]_vars

\* The tags of the action keywords that occur in a text.
TagsOfKeywordsIn(t) ==
    UNION { {keyword_to_tags[n].tags[i] : i \in 1..Len(keyword_to_tags[n].tags)} :
              n \in {m \in 1..Len(keyword_to_tags) :
                        In(keyword_to_tags[m].keyword, Lower(t))} }

\* C14: the generated tags depend only on which action keywords occur in
\* the prompt: they are the default tag "setup" and the tags of the keywords
\* that occur, each tag once, and a prompt that repeats its keywords gets
\* the same tags.
C14_TagsIgnoreRepetition ==
    Called("_generate_tags") =>
        /\ ret.once = ret.twice
        /\ \A t \in DOMAIN ret.once : ret.once[t] = 1
        /\ "setup" \in DOMAIN ret.once
        /\ DOMAIN ret.once = {"setup"} \cup TagsOfKeywordsIn(fn.prompt)

\* A prompt with the keyword install twice (and, through it, the tag
\* "setup" three times in the collected list) and a second keyword.
C14_Witness ==
    /\ Called("_generate_tags")
    /\ fn.prompt = "Please install and reinstall it"
    /\ DOMAIN ret.twice = {"setup", "install"}
    /\ Len(collect_tags(fn.repeated)) > Cardinality(DOMAIN ret.twice)

-----------------------------------------------------------------------------
(* Single calls of the augmenter                                           *)

\* A PlaybookContext with the defaults of the dataclass and the given
\* prompt and requirements.
ContextWith(prompt, requirements) ==
    [prompt |-> prompt, playbook_type |-> None, target_hosts |-> "all",
     environment |-> "production", requirements |-> requirements,
     tags |-> TagSet(list_of_set(<<"setup">>))]

\* The documents the augmenter is called on: the templates and a generic
\* document.
AugmenterDocuments ==
    {load_templates[t] : t \in DOMAIN load_templates}
    \cup {generate_generic(ContextWith("Set up the servers", <<>>))}

\* How often the security augmentation is applied to one play.
MaxTimes == 3

\* _add_security_tasks on the first play of a document, and on its own
\* result again.
Call_add_security_tasks(document) ==
    /\ fn = Absent
    /\ fn' = [k |-> "call", name |-> "_add_security_tasks",
              start |-> document.doc[1], times |-> 1]
    /\ ret' = add_security_tasks(document.doc[1])
    /\ UNCHANGED <<service_vars, call_vars>>

Again_add_security_tasks ==
    /\ Called("_add_security_tasks")
    /\ fn.times < MaxTimes
    /\ fn' = [fn EXCEPT !.times = @ + 1]
    /\ ret' = add_security_tasks(ret)
    /\ UNCHANGED <<service_vars, call_vars>>

\* The flags _extract_requirements can put into a context.
RequirementFlags ==
    {requirement_patterns[n].name : n \in 1..Len(requirement_patterns)}

\* _enhance_with_requirements on a document for a context with one flag.
Call_enhance_with_requirements(document, flag) ==
    /\ fn = Absent
    /\ fn' = [k |-> "call", name |-> "_enhance_with_requirements",
              playbook |-> document, flag |-> flag]
    /\ ret' = enhance_with_requirements(document, ContextWith("", <<flag>>))
    /\ UNCHANGED <<service_vars, call_vars>>

NextAugmenter ==
    \/ \E document \in AugmenterDocuments : Call_add_security_tasks(document)
    \/ Again_add_security_tasks
    \/ \E document \in AugmenterDocuments, flag \in RequirementFlags :
           Call_enhance_with_requirements(document, flag)

SpecAugmenter == Init /\ [][NextAugmenter]_vars

\* The handlers of a play that have the given name, as positions.
HandlersNamed(play, name) ==
    {i \in 1..Len(play.handlers) : play.handlers[i].name = name}

\* C15: a play that starts with no handler, or with the one handler
\* "restart sshd", has exactly one handler of that name after the security
\* augmentation was applied once or more often.
C15_OneRestartSshdHandler ==
    ( /\ Called("_add_security_tasks")
      /\ Cardinality(HandlersNamed(fn.start, "restart sshd")) = Len(fn.start.handlers)
      /\ Len(fn.start.handlers) <= 1 ) =>
        /\ Cardinality(HandlersNamed(ret, "restart sshd")) = 1
        /\ Len(ret.handlers) = 1
        /\ Len(ret.tasks) = Len(fn.start.tasks) + 3 * fn.times

\* The augmentation applied more than once to a play that had no handler.
C15_Witness ==
    /\ Called("_add_security_tasks")
    /\ fn.start.handlers = <<>>
    /\ fn.times >= 2
    /\ Cardinality(HandlersNamed(ret, "restart sshd")) = 1

\* C16: for each of the six requirement flags, enhancing a document for a
\* context with the flag appends tasks to the first play after its own: no
\* flag is left without augmentation.
C16_EveryFlagAugments ==
    Called("_enhance_with_requirements") =>
        LET before == fn.playbook.doc[1].tasks
            after == ret.doc[1].tasks
        IN  /\ Len(after) > Len(before)
            /\ SubSeq(after, 1, Len(before)) = before

-----------------------------------------------------------------------------
(* End-to-end properties of the fallback path                              *)

\* Call c has ended with the AI path disabled for the given prompt.
FallbackDone(c, prompt) ==
    /\ pc[c] = "done"
    /\ ~req[c].use_ai
    /\ req[c].prompt = prompt
    /\ resp[c].k = "response"

\* C17: with AI disabled the prompt "Deploy a kubernetes application with
\* monitoring" gives the category kubernetes and a document whose first play
\* has the tasks of the kubernetes template followed by the two monitoring
\* tasks, the node exporter install and its service.
C17_KubernetesWithMonitoring ==
    \A c \in Calls :
        FallbackDone(c, "Deploy a kubernetes application with monitoring") =>
            LET tasks == resp[c].playbook.doc[1].tasks
                base == kubernetes_template.doc[1].tasks
            IN  /\ resp[c].success
                /\ resp[c].playbook_type = "kubernetes"
                /\ Len(tasks) >= Len(base) + 2
                /\ SubSeq(tasks, 1, Len(base)) = base
                /\ \E i \in (Len(base) + 1)..(Len(tasks) - 1) :
                       /\ tasks[i].name = "Install node exporter"
                       /\ tasks[i + 1].name = "Create systemd service for node exporter"

\* C18: with AI disabled and the environment override "staging" the prompt
\* "Harden system security" gives the category security and a document
\* whose first play has the variable environment equal to "staging" and
\* exactly one handler named "restart sshd".
C18_SecurityOnStaging ==
    \A c \in Calls :
        ( /\ FallbackDone(c, "Harden system security")
          /\ req[c].environment = "staging" ) =>
            LET play == resp[c].playbook.doc[1]
            IN  /\ resp[c].success
                /\ resp[c].playbook_type = "security"
                /\ "environment" \in DOMAIN play.vars
                /\ play.vars["environment"] = "staging"
                /\ Cardinality(HandlersNamed(play, "restart sshd")) = 1

-----------------------------------------------------------------------------
(* Sequences of calls of the generator                                     *)

\* The contexts generate is called with.
GeneratorContexts ==
    {[ContextWith("Install and deploy it", requirements)
        EXCEPT !.playbook_type = type] :
        type \in DOMAIN load_templates \cup {None, "network"},
        requirements \in {<<>>, <<"security">>, <<"monitoring", "backup">>,
                          <<"high_availability", "security">>}}

\* A generator that keeps the parsed base document it has augmented in
\* place of the template.
templates_after_generate_keeps_document(context) ==
    IF context.playbook_type /= None /\ context.playbook_type \in DOMAIN templates
    THEN [templates EXCEPT ![context.playbook_type] = SourceText(generate(context).doc)]
    ELSE templates

\* self.templates after PlaybookGenerator.generate: a template is a str,
\* yaml.safe_load builds a new object from it for every call, and generate
\* assigns nothing to self.templates.
templates_after_generate(context) == templates

\* One call of PlaybookGenerator.generate on the generator of the service.
Call_generate(context) ==
    /\ fn' = [k |-> "call", name |-> "generate", context |-> context]
    /\ ret' = generate(context)
    /\ templates' = templates_after_generate(context)
    /\ UNCHANGED <<environ, default_provider, default_model, faults, call_vars>>

\* Prompts that name two requirements, in either order, next to a word
\* that decides the category: docker, security (ssh) or none (servers, and
\* the names of the two categories without a pattern).
RequirementWords == {"failover", "firewall", "monitor", "backup", "cache"}

RequirementPrompts ==
    {"Run " \o base \o " with " \o w1 \o " and " \o w2 :
        base \in {"docker", "ssh", "servers", "system", "cicd"},
        w1 \in RequirementWords, w2 \in RequirementWords}

\* One call of _generate_with_template without overrides, on the generator
\* of the service.
Call_generate_with_template(prompt) ==
    /\ fn = Absent
    /\ fn' = [k |-> "call", name |-> "_generate_with_template", prompt |-> prompt]
    /\ ret' = generate_with_template(prompt, None, None, <<>>)
    /\ templates' = templates_after_generate(analyze_prompt(prompt))
    /\ UNCHANGED <<environ, default_provider, default_model, faults, call_vars>>

NextGenerator ==
    \/ \E context \in GeneratorContexts : Call_generate(context)
    \/ \E prompt \in RequirementPrompts : Call_generate_with_template(prompt)

SpecGenerator == Init /\ [][NextGenerator]_vars

\* C19: generation never changes the template library: after any sequence
\* of generate calls every stored template is its initial value, and the
\* document a call returned is the one a call with an equal context returns
\* now.
C19_TemplatesNeverMutated ==
    /\ templates = load_templates
    /\ Called("generate") => ret = generate(fn.context)

\* A generation that augmented the first play of a template: the document
\* has more tasks than the stored template.
C19_Witness ==
    /\ Called("generate")
    /\ fn.context.playbook_type = "security"
    /\ fn.context.requirements = <<"security">>
    /\ Len(ret.doc[1].tasks) = Len(templates["security"].doc[1].tasks) + 3

-----------------------------------------------------------------------------
(* The service with several calls in flight                                *)

\* The environments, requests and provider answers of the concurrent calls.
ConcurrentEnvirons ==
    { Environ("g-key", None, None, None, None, None),
      Environ("g-key", "google-key", "o-key", "a-key", "anthropic", None) }

ConcurrentRequests ==
    { GenerateRequest("Harden system security", "all", "production", <<>>,
                      None, None, TRUE),
      GenerateRequest("Install nginx with backup", "webservers", "staging",
                      <<"web">>, "gemini", None, TRUE),
      GenerateRequest("Deploy docker", None, None, <<>>, None, None, FALSE) }

ConcurrentReplies(name) ==
    { TransportFailure,
      HttpResponse(200, BodyOf(name, JStr("~~~yaml\n- name: deploy to k8s\n~~~"))),
      HttpResponse(200, BodyOf(name, JStr("- name: install Nginx"))) }

ConcurrentRepliesTo(c) ==
    IF client[c].k = "client" THEN ConcurrentReplies(client[c].name) ELSE {}

InitConcurrent ==
    /\ \E env \in ConcurrentEnvirons : InitService(env)
    /\ faults = {FALSE}
    /\ InitCalls
    /\ fn = Absent
    /\ ret = Absent

\* Any call takes its next step: the calls interleave at the await of the
\* POST, the only point where a call is suspended.
NextConcurrent ==
    \E c \in Calls :
        \/ \E r \in ConcurrentRequests, f \in faults : StartGenerate(c, r, f)
        \/ \E reply \in ConcurrentRepliesTo(c) : AISucceeds(c, reply)
        \/ \E reply \in ConcurrentRepliesTo(c), f \in faults : AIFails(c, reply, f)
        \/ Return(c)

SpecConcurrent == InitConcurrent /\ [][NextConcurrent]_vars

\* The responses the request r gets from the service when its call runs
\* alone: the fallback's, or with a resolved provider also the one of each
\* text the provider may answer with.
AloneResponses(r) ==
    LET enriched == build_full_prompt(r.prompt, r.target_hosts, r.environment,
                                      r.tags)
        cl == create_provider(OrElse(r.provider, default_provider),
                              OrElse(r.model, default_model), None)
        fallback == generate_playbook_response(template_fallback(r, enriched))
        answers == IF r.use_ai /\ cl.k = "client"
                   THEN {generate_with_ai(cl, reply) :
                            reply \in ConcurrentReplies(cl.name)}
                   ELSE {}
    IN  {fallback} \cup
        {GenerateResponse(TRUE, PlainText(a.s), detect_playbook_type(a.s), None) :
            a \in {b \in answers : ~IsRaise(b)}}

\* C20: with several calls in flight every call answers as it would alone:
\* its enriched prompt and its POST are built from its own request, the
\* context of its fallback is the one of its own request, and its response
\* is one its request gets when run alone.
C20_CallsDoNotInterfere ==
    \A c \in Calls :
        req[c] /= Absent =>
            /\ full_prompt[c] = build_full_prompt(req[c].prompt, req[c].target_hosts,
                                                  req[c].environment, req[c].tags)
            /\ client[c].k = "client" =>
                  sent[c] = <<build_request(client[c], full_prompt[c],
                                            PLAYBOOK_SYSTEM_PROMPT)>>
            /\ pc[c] = "done" =>
                  /\ resp[c] \in AloneResponses(req[c])
                  /\ ctx[c] /= Absent =>
                        ctx[c] = template_fallback(req[c], full_prompt[c]).context

\* Two calls with different requests are past their provider call, the
\* first one answered from the fallback while the other was in flight.
C20_Witness ==
    \E c, d \in Calls :
        /\ c /= d
        /\ pc[c] = "done" /\ pc[d] = "done"
        /\ req[c] /= req[d]
        /\ client[c].k = "client" /\ client[d].k = "client"
        /\ Passed(c, "FallingBack")
        /\ Passed(d, "Success")

-----------------------------------------------------------------------------
(* Single calls of the two augmentation stages on arbitrary texts          *)

\* The texts a stage is called on: two documents, a document without a
\* play, two texts that cannot be parsed, a text that parses as a scalar and
\* the empty text.
StageTexts ==
    { security_template,
      SourceText(<<>>),
      generate_generic(ContextWith("Set up the servers", <<>>)),
      PlainText("tasks: [a, b"),
      PlainText("- hosts: {all"),
      PlainText("hello"),
      PlainText("") }

StagePrompts == {"", "Install and configure it", "Just deploy"}

StageRequirements ==
    {<<>>, <<"scalability", "security">>}
    \cup {<<flag>> : flag \in RequirementFlags}

\* The contexts a stage is called with.
StageContexts ==
    {ContextWith(prompt, requirements) :
        prompt \in StagePrompts, requirements \in StageRequirements}

StageNames == {"_enhance_with_requirements", "_add_custom_tasks"}

\* One call of an augmentation stage.
Call_stage(stage, playbook, context) ==
    /\ fn = Absent
    /\ fn' = [k |-> "call", name |-> "stage", stage |-> stage,
              playbook |-> playbook, context |-> context]
    /\ ret' = IF stage = "_enhance_with_requirements"
              THEN enhance_with_requirements(playbook, context)
              ELSE add_custom_tasks(playbook, context)
    /\ UNCHANGED <<service_vars, call_vars>>

NextStages ==
    \E stage \in StageNames, playbook \in StageTexts, context \in StageContexts :
        Call_stage(stage, playbook, context)

SpecStages == Init /\ [][NextStages]_vars

\* C21: a stage called on a text that cannot be parsed raises nothing and
\* returns exactly the text it was given, whatever the prompt and the
\* requirements of the context.
C21_StagesFailSoft ==
    ( /\ Called("stage")
      /\ IsRaise(yaml_safe_load(fn.playbook)) ) =>
        /\ ~IsRaise(ret)
        /\ ret = fn.playbook

\* Each stage was called on an unparsable text for a context that makes it
\* act on a parsed document: a requirement with a branch, a prompt with an
\* action keyword.
C21_Witness ==
    /\ Called("stage")
    /\ IsRaise(yaml_safe_load(fn.playbook))
    /\ fn.context.requirements = <<"security">>
    /\ fn.context.prompt = "Install and configure it"
    /\ ret = fn.playbook

-----------------------------------------------------------------------------
(* The orchestrator as a state machine                                     *)

\* The POST of call c is answered or fails: httpx returns or raises within
\* its timeout, and the event loop resumes the call.
ProviderAnswers(c) ==
    \/ \E reply \in ConcurrentRepliesTo(c) : AISucceeds(c, reply)
    \/ \E reply \in ConcurrentRepliesTo(c), f \in faults : AIFails(c, reply, f)

\* Weak fairness of ProviderAnswers(c), WF_vars(ProviderAnswers(c)), with
\* the enabling condition of the action written out: a reply is at hand for
\* every call that is suspended at its POST, and for no other call.
ProviderAnswersFairly(c) ==
    \/ []<>(pc[c] /= "awaiting")
    \/ []<><<ProviderAnswers(c)>>_vars

\* The provider call of every call returns or fails, and every response is
\* delivered.
SpecLive ==
    /\ InitConcurrent
    /\ [][NextConcurrent]_vars
    /\ \A c \in Calls : ProviderAnswersFairly(c) /\ WF_vars(Return(c))

\* The orchestrator states of a call, in the orders the description allows.
DescribedTrails ==
    { <<"BuildingPrompt", "TryingAI", "Success", "Done">>,
      <<"BuildingPrompt", "TryingAI", "FallingBack", "Done">>,
      <<"BuildingPrompt", "FallingBack", "Done">> }

TrailStates(c) == {trail[c][i] : i \in 1..Len(trail[c])}

\* The response tells a document with its label, or a failure.
PairOrFailure(r) ==
    /\ r.k = "response"
    /\ IF r.success
       THEN r.playbook /= Absent /\ r.playbook_type /= None /\ r.error = None
       ELSE r.playbook = Absent /\ r.error /= None

FollowsStateMachine(c) ==
    /\ pc[c] = "idle" => trail[c] = <<>>
    /\ pc[c] = "awaiting" =>
          /\ trail[c] = <<"BuildingPrompt", "TryingAI">>
          /\ Len(sent[c]) = 1
    /\ pc[c] = "done" =>
          /\ trail[c] \in DescribedTrails
          /\ "TryingAI" \in TrailStates(c) <=> req[c].use_ai
          /\ "Success" \in TrailStates(c) =>
                /\ ctx[c] = Absent
                /\ resp[c].k = "response" /\ resp[c].success
          /\ Len(sent[c]) <= 1
          /\ PairOrFailure(resp[c])

\* C22: every call passes BuildingPrompt, TryingAI exactly when AI is
\* enabled, then exactly one of Success and FallingBack, then Done; no
\* fallback runs after a success and the POST is issued once; and a call
\* suspended at its provider call reaches Done with a document and label or
\* a reported failure, the provider call returning or failing.
C22_StateMachine ==
    /\ [](\A c \in Calls : FollowsStateMachine(c))
    /\ \A c \in Calls :
          (pc[c] = "awaiting") ~> (pc[c] = "done" /\ PairOrFailure(resp[c]))

\* A call that tried AI, had its provider call fail and was answered from
\* the fallback.
C22_Witness ==
    \E c \in Calls :
        /\ pc[c] = "done"
        /\ trail[c] = <<"BuildingPrompt", "TryingAI", "FallingBack", "Done">>
        /\ Len(sent[c]) = 1
        /\ PairOrFailure(resp[c])
        /\ resp[c].success

-----------------------------------------------------------------------------
(* Properties of the fallback path: selection, overrides, documents        *)

\* Call c has ended with a success response built by the fallback path.
FallbackAnswered(c) ==
    /\ pc[c] = "done"
    /\ ctx[c] /= Absent
    /\ resp[c].k = "response"
    /\ resp[c].success

\* The number of tasks the requirement enhancement appends for a list of
\* requirements.
RECURSIVE AppendedTasks(_)
AppendedTasks(requirements) ==
    IF Len(requirements) = 0 THEN 0
    ELSE (CASE Head(requirements) = "security" -> 3
            [] Head(requirements) \in {"high_availability", "monitoring", "backup"} -> 2
            [] OTHER -> 0)
         + AppendedTasks(Tail(requirements))

\* C23: on the fallback path a category with a template gives a document
\* that starts as that template (name, hosts, vars, tasks); the category
\* network and the unset category give the generic document, whose play has
\* the context's host selector, the context's environment as its only
\* variable and the two base tasks followed by nothing but the appended
\* requirement tasks; the label is the category's name, "general" if unset.
C23_TemplateSelection ==
    \A c \in Calls :
        FallbackAnswered(c) =>
            LET context == ctx[c]
                play == resp[c].playbook.doc[1]
            IN  IF context.playbook_type /= None
                   /\ context.playbook_type \in DOMAIN load_templates
                THEN LET base == load_templates[context.playbook_type].doc[1]
                     IN  /\ play.name = base.name
                         /\ play.hosts = base.hosts
                         /\ play.vars = base.vars
                         /\ Len(play.tasks) >= Len(base.tasks)
                         /\ SubSeq(play.tasks, 1, Len(base.tasks)) = base.tasks
                         /\ resp[c].playbook_type = context.playbook_type
                ELSE /\ context.playbook_type \in {None, "network"}
                     /\ play.hosts = context.target_hosts
                     /\ play.vars = ("environment" :> context.environment)
                     /\ Len(play.tasks) = 2 + AppendedTasks(context.requirements)
                     /\ play.tasks[1].name = "Gather system facts"
                     /\ play.tasks[2].name = "Ensure system packages are updated"
                     /\ resp[c].playbook_type =
                           IF context.playbook_type = None THEN "general"
                           ELSE "network"

\* A fallback answer for the category network with an overridden host
\* selector and appended requirement tasks.
C23_Witness ==
    \E c \in Calls :
        /\ FallbackAnswered(c)
        /\ ctx[c].playbook_type = "network"
        /\ req[c].target_hosts = "webservers"
        /\ resp[c].playbook_type = "network"
        /\ resp[c].playbook.doc[1].hosts = "webservers"
        /\ Len(resp[c].playbook.doc[1].tasks) > 2

\* C24: the context of a fallback answer has the request's host selector,
\* environment and tag list where the request gives a non-empty one and the
\* analyzer's value of the original prompt elsewhere; its category and its
\* requirements are the analyzer's; and the document is built from this
\* context.
C24_OverridesReplaceWhenProvided ==
    \A c \in Calls :
        FallbackAnswered(c) =>
            LET analyzed == analyze_prompt(req[c].prompt)
            IN  /\ ctx[c].target_hosts =
                      IF Truthy(req[c].target_hosts) THEN req[c].target_hosts
                      ELSE analyzed.target_hosts
                /\ ctx[c].environment =
                      IF Truthy(req[c].environment) THEN req[c].environment
                      ELSE analyzed.environment
                /\ ctx[c].tags =
                      IF Len(req[c].tags) > 0 THEN TagList(req[c].tags)
                      ELSE analyzed.tags
                /\ ctx[c].playbook_type = analyzed.playbook_type
                /\ ctx[c].requirements = analyzed.requirements
                /\ ctx[c].prompt = analyzed.prompt
                /\ resp[c].playbook = generate(ctx[c])

\* A fallback answer whose request overrides all three values with words
\* the analyzer reacts to, and whose category stays that of the prompt.
C24_Witness ==
    \E c \in Calls :
        /\ FallbackAnswered(c)
        /\ req[c].prompt = "Harden system security"
        /\ req[c].target_hosts = "docker"
        /\ ctx[c].target_hosts = "docker"
        /\ ctx[c].environment = "staging"
        /\ ctx[c].tags = TagList(<<"kubernetes", "install">>)
        /\ ctx[c].playbook_type = "security"

\* C25: the custom-task stage called on a document with a play returns a
\* document with the same plays, tasks and handlers in the same order, for
\* prompts with and without the words install, configure and deploy.
C25_CustomTasksKeepStructure ==
    ( /\ Called("stage")
      /\ fn.stage = "_add_custom_tasks"
      /\ fn.playbook.k = "yaml"
      /\ Len(fn.playbook.doc) > 0 ) =>
        /\ ~IsRaise(ret)
        /\ ret.k = "yaml"
        /\ ret.doc = fn.playbook.doc

\* The stage was called on the security template for a prompt with two of
\* the words, and returned the same document in a new serialization.
C25_Witness ==
    /\ Called("stage")
    /\ fn.stage = "_add_custom_tasks"
    /\ fn.playbook = security_template
    /\ fn.context.prompt = "Install and configure it"
    /\ ~IsRaise(ret)
    /\ ret.doc = security_template.doc
    /\ ret /= fn.playbook

\* The names of the tasks each requirement with a branch appends.
BlockNames(requirement) ==
    CASE requirement = "high_availability" ->
            <<"Configure keepalived for HA", "Setup load balancer health checks">>
      [] requirement = "security" ->
            <<"Configure firewall rules", "Setup fail2ban", "Configure SSH hardening">>
      [] requirement = "monitoring" ->
            <<"Install node exporter", "Create systemd service for node exporter">>
      [] requirement = "backup" ->
            <<"Create backup directory", "Setup automated backup cron job">>

\* The blocks of a set of requirements in the order high-availability,
\* security, monitoring, backup.
BlocksInFixedOrder(detected) ==
    LET block(r) == IF r \in detected THEN BlockNames(r) ELSE <<>>
    IN  block("high_availability") \o block("security")
        \o block("monitoring") \o block("backup")

\* The requirements whose pattern matches a prompt, as a set.
DetectedRequirements(prompt) ==
    {requirement_patterns[n].name :
        n \in {m \in 1..Len(requirement_patterns) :
                  Search(requirement_patterns[m].alts, prompt)}}

\* The base document generate starts from for a context.
BaseDocument(context) ==
    IF context.playbook_type /= None /\ context.playbook_type \in DOMAIN load_templates
    THEN load_templates[context.playbook_type].doc
    ELSE generate_generic(context).doc

\* C26: the document of a prompt has the plays of its base document; the
\* first play keeps the base tasks as a prefix of its tasks and the base
\* handlers as a prefix of its handlers, and the tasks after the prefix are
\* the blocks of the requirements the prompt names, in the order
\* high-availability, security, monitoring, backup, whatever the order of
\* the words in the prompt.
C26_EnhancementOnlyAppends ==
    Called("_generate_with_template") =>
        LET base == BaseDocument(ret.context)
            document == ret.playbook.doc
            tasks == document[1].tasks
            handlers == document[1].handlers
            appended == SubSeq(tasks, Len(base[1].tasks) + 1, Len(tasks))
        IN  /\ Len(document) = Len(base)
            /\ \A p \in 2..Len(base) : document[p] = base[p]
            /\ Len(tasks) >= Len(base[1].tasks)
            /\ SubSeq(tasks, 1, Len(base[1].tasks)) = base[1].tasks
            /\ Len(handlers) >= Len(base[1].handlers)
            /\ SubSeq(handlers, 1, Len(base[1].handlers)) = base[1].handlers
            /\ [i \in 1..Len(appended) |-> appended[i].name]
                  = BlocksInFixedOrder(DetectedRequirements(fn.prompt))

\* A prompt that names backup before failover, on the docker template: the
\* high-availability block comes first all the same.
C26_Witness ==
    /\ Called("_generate_with_template")
    /\ fn.prompt = "Run docker with backup and failover"
    /\ ret.context.requirements = <<"high_availability", "backup">>
    /\ LET tasks == ret.playbook.doc[1].tasks
           n == Len(docker_template.doc[1].tasks)
       IN  /\ Len(tasks) = n + 4
           /\ tasks[n + 1].name = "Configure keepalived for HA"
           /\ tasks[n + 3].name = "Create backup directory"

\* The document a call of the generator returned.
GeneratedDocument ==
    IF Called("generate") THEN ret.doc ELSE ret.playbook.doc

\* Every notify of a task of the play names one of the play's handlers.
NotifyResolved(play) ==
    \A i \in 1..Len(play.tasks) :
        play.tasks[i].notify /= None =>
            \E h \in 1..Len(play.handlers) :
                play.handlers[h].name = play.tasks[i].notify

\* C27: in every document the generator returns, for every category and
\* every list of requirements, each task with a notify names a handler of
\* its own play.
C27_NotifyNamesHandler ==
    (Called("generate") \/ Called("_generate_with_template")) =>
        \A p \in 1..Len(GeneratedDocument) : NotifyResolved(GeneratedDocument[p])

\* A document of a category whose template has no handler, enhanced for
\* security: the added task notifies the added handler.
C27_Witness ==
    /\ Called("generate")
    /\ fn.context.playbook_type = "docker"
    /\ fn.context.requirements = <<"high_availability", "security">>
    /\ \E i \in 1..Len(ret.doc[1].tasks) : ret.doc[1].tasks[i].notify = "restart sshd"
    /\ Len(ret.doc[1].handlers) = 1
    /\ NotifyResolved(ret.doc[1])

\* C28: the category the analyzer gives a generation request is unset or
\* one of kubernetes, docker, database, monitoring, security, network, also
\* for prompts that name the generic-system or the ci-cd category; so the
\* label is never "system" or "cicd" and the document is never built from
\* the generic-system template.
C28_OnlyPatternCategories ==
    Called("_generate_with_template") =>
        /\ ret.context.playbook_type \in
              {None, "kubernetes", "docker", "database", "monitoring",
               "security", "network"}
        /\ ret.playbook_type \notin {"system", "cicd"}
        /\ ret.playbook.doc[1].name /= system_template.doc[1].name

\* A request that names the generic-system category gets no category and
\* the generic document.
C28_Witness ==
    /\ Called("_generate_with_template")
    /\ fn.prompt = "Run system with backup and cache"
    /\ ret.context.playbook_type = None
    /\ ret.playbook_type = "general"
    /\ ret.playbook.doc[1].name = "Playbook for: Run system with backup and cache"

-----------------------------------------------------------------------------
(* Properties of the AI path                                               *)

\* The reply of the provider named name that carries the text in a body of
\* the provider's shape.
WellShapedReply(name, text) == HttpResponse(200, BodyOf(name, JStr(text)))

\* The response to a request answered with the given text by the AI path.
AcceptedAsItIs(text) ==
    GenerateResponse(TRUE, PlainText(clean_codeblock(text)),
                     detect_playbook_type(clean_codeblock(text)), None)

\* C29: every step in which a call receives a well-shaped reply ends the
\* call with success, with the cleaned text of the reply as the document
\* and the label detected in it, without a fallback context: also when the
\* text is empty or is no playbook.
C29_AIResponseNotValidated ==
    [][\A c \in Calls, text \in AITexts :
          ( /\ pc[c] = "awaiting"
            /\ \/ AISucceeds(c, WellShapedReply(client[c].name, text))
               \/ \E f \in faults :
                     AIFails(c, WellShapedReply(client[c].name, text), f) )
          => /\ resp'[c] = AcceptedAsItIs(text)
             /\ ctx'[c] = Absent
             /\ trail'[c] = <<"BuildingPrompt", "TryingAI", "Success", "Done">>]_vars

\* A call answered with the empty text: the response is a success with an
\* empty document.
C29_Witness ==
    \E c \in Calls :
        /\ pc[c] = "done"
        /\ Passed(c, "Success")
        /\ resp[c] = AcceptedAsItIs("")
        /\ resp[c].playbook = PlainText("")
        /\ ctx[c] = Absent

-----------------------------------------------------------------------------
(* Requests as they arrive at the endpoint                                 *)

EnvironmentPrompts ==
    { "Deploy docker on staging", "Set up the development servers",
      "Move dev to production", "Install nginx", "Harden ssh in Staging",
      "Backup the developer database" }

\* JSON bodies with AI disabled: the environment field left out, null,
\* empty or set, with and without a host selector.
RequestBodies ==
    { ("prompt" :> p) @@ ("use_ai" :> FALSE) @@ hosts @@ env :
        p \in EnvironmentPrompts,
        hosts \in { <<>>, ("target_hosts" :> "webservers") },
        env \in { <<>> } \cup
                { ("environment" :> e) :
                     e \in {None, "", "staging", "production", "development"} } }

\* generate_playbook on a body that disables AI: the request is parsed and
\* answered from the fallback path.
Call_generate_playbook(body) ==
    /\ fn = Absent
    /\ ~ai_enabled(parse_request(body))
    /\ fn' = [k |-> "call", name |-> "generate_playbook", body |-> body]
    /\ ret' = LET r == parse_request(body)
              IN  template_fallback(r, build_full_prompt(r.prompt, r.target_hosts,
                                                         r.environment, r.tags))
    /\ UNCHANGED <<service_vars, call_vars>>

NextEndpoint == \E body \in RequestBodies : Call_generate_playbook(body)

SpecEndpoint == Init /\ [][NextEndpoint]_vars

\* C30: on the fallback path a request without an environment field has the
\* context environment "production" for every prompt; a request with a
\* non-empty environment has that one; and the context takes the
\* environment the analyzer finds in the prompt only when the field is
\* given as null or as the empty string.
C30_DefaultEnvironmentOverrides ==
    Called("generate_playbook") =>
        LET body == fn.body
            detected == detect_environment(body["prompt"])
            given == "environment" \in DOMAIN body
        IN  /\ ~given => ret.context.environment = "production"
            /\ (given /\ Truthy(body["environment"])) =>
                  ret.context.environment = body["environment"]
            /\ (given /\ ~Truthy(body["environment"])) =>
                  ret.context.environment = detected

\* A request without an environment field whose prompt names staging: the
\* context is for production.
C30_Witness ==
    /\ Called("generate_playbook")
    /\ "environment" \notin DOMAIN fn.body
    /\ fn.body["prompt"] = "Deploy docker on staging"
    /\ detect_environment(fn.body["prompt"]) = "staging"
    /\ ret.context.environment = "production"

====
